---- MODULE Spec2Model ----
(***************************************************************************)
(* A model of the dynamic value type SolidityType of json_values.rs: the   *)
(* type guesser (guess_json_value), the serde representation               *)
(* {"type": ..., "value": ...}, the structural operations get and insert,  *)
(* and the operations that read a value: map, filter, to_maybe_value,      *)
(* to_string, addition and the comparisons.                                *)
(*                                                                         *)
(* Text is modelled as a sequence of one-character strings, so that        *)
(* prefixes, lengths, digits and the byte order of keys are computed, not  *)
(* assumed.  A 20-byte address, a byte array and a 256-bit integer are     *)
(* sequences of hexadecimal digit values (0..15), most significant first.  *)
(***************************************************************************)
EXTENDS Integers, Sequences, FiniteSets, TLC

VARIABLES
    doc,     \* the serde_json::Value at hand: the input of a guess or a decoding, the output of an encoding or of to_string
    val,     \* the SolidityType the structural operations act on (self)
    old,     \* val as it was before the last operation
    key,     \* the key of the last get or insert, the name of the callback of the last map or filter
    arg,     \* the value of the last insert, the right-hand side of the last binary operator
    ret,     \* the SolidityType the last operation returned
    op,      \* the last operation
    status   \* "ok", or "panic" once an operation has panicked

vars == <<doc, val, old, key, arg, ret, op, status>>

----------------------------------------------------------------------------
(* Bounds *)

\* the longest Tuple / List and the largest Struct the operations build
MaxLen == 2
\* the largest JSON object handed to the guesser
MaxPairs == 3
\* the longest run of characters after "0x" in a guessed string
MaxHexDigits == 68

----------------------------------------------------------------------------
(* Characters and text *)

\* the characters of the model in byte order (ASCII): digits < upper case < "_" < lower case
Ascii == <<"0", "1", "2", "3", "4", "5", "6", "7", "8", "9", "A", "B", "C", "D", "E", "F", "_",
           "a", "b", "c", "d", "e", "f", "g", "h", "i", "j", "k", "l", "m", "n", "o", "p",
           "q", "r", "s", "t", "u", "v", "w", "x", "y", "z">>

Code(c) == CHOOSE i \in 1..Len(Ascii) : Ascii[i] = c

DecDigits == <<"0", "1", "2", "3", "4", "5", "6", "7", "8", "9">>
HexDigits == <<"0", "1", "2", "3", "4", "5", "6", "7", "8", "9", "a", "b", "c", "d", "e", "f">>

HexUpper == <<"0", "1", "2", "3", "4", "5", "6", "7", "8", "9", "A", "B", "C", "D", "E", "F">>

IsDecDigit(c) == \E i \in 1..Len(DecDigits) : DecDigits[i] = c
IsHexDigit(c) == \E i \in 1..Len(HexDigits) : HexDigits[i] = c \/ HexUpper[i] = c
HexVal(c) == (CHOOSE i \in 1..Len(HexDigits) : HexDigits[i] = c \/ HexUpper[i] = c) - 1
\* the value of a character as a digit of a radix up to 36: '0'..'9', then the
\* letters; every letter after 'f' gets a value of 16 or more
DigitVal(c) == IF IsHexDigit(c) THEN HexVal(c) ELSE 10 + (Code(c) - Code("a"))

\* String's Ord: byte-wise lexicographic order
RECURSIVE StrLess(_, _)
StrLess(a, b) ==
    IF b = <<>> THEN FALSE
    ELSE IF a = <<>> THEN TRUE
    ELSE IF a[1] # b[1] THEN Code(a[1]) < Code(b[1])
    ELSE StrLess(Tail(a), Tail(b))

\* the texts the model names
S_ab == <<"a", "b">>
S_foo == <<"f", "o", "o">>
S_a == <<"a">>
S_0 == <<"0">>
S_1 == <<"1">>
S_2 == <<"2">>
S_3 == <<"3">>
K_0 == <<"_", "0">>
K_1 == <<"_", "1">>
K_2 == <<"_", "2">>
K_10 == <<"_", "1", "0">>
K_1x == <<"_", "1", "x">>
K_a_1 == <<"a", "_", "1">>
K_underscore == <<"_">>
S_0x == <<"0", "x">>
S_x0ab == <<"x", "0", "a", "b">>

\* str::starts_with("0x")
starts_with_0x(s) == Len(s) >= 2 /\ s[1] = "0" /\ s[2] = "x"

Repeat(c, n) == [i \in 1..n |-> c]

\* a big-endian digit sequence without its leading zeros
StripZeros(d) ==
    LET nz == {i \in 1..Len(d) : d[i] # 0}
    IN  IF nz = {} THEN <<>>
        ELSE SubSeq(d, CHOOSE i \in nz : \A i2 \in nz : i <= i2, Len(d))

RECURSIVE NatToNibbles(_)
NatToNibbles(n) == IF n = 0 THEN <<>> ELSE Append(NatToNibbles(n \div 16), n % 16)

RECURSIVE NibblesToNat(_)
NibblesToNat(d) == IF d = <<>> THEN 0 ELSE 16 * NibblesToNat(SubSeq(d, 1, Len(d) - 1)) + d[Len(d)]

HexText(d) == [i \in 1..Len(d) |-> HexDigits[d[i] + 1]]

----------------------------------------------------------------------------
(* Results of fallible conversions: Result<T, E> *)

Ok(x) == [ok |-> TRUE, x |-> x]
Err == [ok |-> FALSE]

----------------------------------------------------------------------------
(* serde_json::Value *)

JNull == [j |-> "null"]
JBool(b) == [j |-> "bool", b |-> b]
JNumber(n) == [j |-> "num", n |-> n]
JString(s) == [j |-> "str", s |-> s]
JArray(a) == [j |-> "arr", a |-> a]
\* an object is a serde_json::Map: its entries [k, v] in the order the map iterates them
JObject(o) == [j |-> "obj", o |-> o]

Keys(o) == {o[i].k : i \in 1..Len(o)}
Lookup(o, k) == o[CHOOSE i \in 1..Len(o) : o[i].k = k].v

\* variant: a map that keeps its entries in insertion order
MapInsertAppend(o, k, v) ==
    IF k \in Keys(o)
    THEN [i \in 1..Len(o) |-> IF o[i].k = k THEN [k |-> k, v |-> v] ELSE o[i]]
    ELSE Append(o, [k |-> k, v |-> v])

\* serde_json::Map::insert (a BTreeMap<String, Value>): replace the value of a key
\* that is present, else place the entry where the keys stay in String order
MapInsert(o, k, v) ==
    IF k \in Keys(o)
    THEN [i \in 1..Len(o) |-> IF o[i].k = k THEN [k |-> k, v |-> v] ELSE o[i]]
    ELSE LET n == Cardinality({i \in 1..Len(o) : StrLess(o[i].k, k)})
         IN  SubSeq(o, 1, n) \o <<[k |-> k, v |-> v]>> \o SubSeq(o, n + 1, Len(o))

----------------------------------------------------------------------------
(* SolidityType *)

Null == [t |-> "Null"]
Boolean(n) == [t |-> "Boolean", n |-> n]
Enum(n) == [t |-> "Enum", n |-> n]
Uint(d) == [t |-> "Uint", h |-> d]
Address(h) == [t |-> "Address", h |-> h]
ByteArray(h) == [t |-> "ByteArray", h |-> h]
FixedArray(h) == [t |-> "FixedArray", h |-> h]
String(s) == [t |-> "String", s |-> s]
Tuple(items) == [t |-> "Tuple", items |-> items]
List(items) == [t |-> "List", items |-> items]
\* fields: a function from field names to values (a HashMap<String, SolidityType>)
Struct(fields) == [t |-> "Struct", fields |-> fields]

\* the outcome of an operation that panicked instead of returning
Panic == [t |-> "Panic"]

IsSeq(v) == v.t \in {"Tuple", "List"}
IsScalar(v) == v.t \in {"Boolean", "Enum", "Uint", "Address", "ByteArray", "FixedArray", "String"}

\* the variant names under #[serde(rename_all = "camelCase")]
Tag_boolean == <<"b", "o", "o", "l", "e", "a", "n">>
Tag_enum == <<"e", "n", "u", "m">>
Tag_uint == <<"u", "i", "n", "t">>
Tag_address == <<"a", "d", "d", "r", "e", "s", "s">>
Tag_byteArray == <<"b", "y", "t", "e", "A", "r", "r", "a", "y">>
Tag_fixedArray == <<"f", "i", "x", "e", "d", "A", "r", "r", "a", "y">>
Tag_string == <<"s", "t", "r", "i", "n", "g">>
Tag_tuple == <<"t", "u", "p", "l", "e">>
Tag_list == <<"l", "i", "s", "t">>
Tag_struct == <<"s", "t", "r", "u", "c", "t">>
Key_type == <<"t", "y", "p", "e">>
Key_value == <<"v", "a", "l", "u", "e">>

----------------------------------------------------------------------------
(* FromStr of the payload types *)

StripPrefix(s) == IF starts_with_0x(s) THEN SubSeq(s, 3, Len(s)) ELSE s

\* d * m + carry on a big-endian sequence of hexadecimal digits
RECURSIVE MulAdd(_, _, _)
MulAdd(d, m, carry) ==
    IF d = <<>> THEN NatToNibbles(carry)
    ELSE LET x == d[Len(d)] * m + carry
         IN  Append(MulAdd(SubSeq(d, 1, Len(d) - 1), m, x \div 16), x % 16)

RECURSIVE FromBase(_, _, _)
FromBase(acc, digits, radix) ==
    IF digits = <<>> THEN acc
    ELSE FromBase(StripZeros(MulAdd(acc, radix, digits[1])), Tail(digits), radix)

BitLen(d) == IF d = <<>> THEN 0
             ELSE 4 * (Len(d) - 1) + (IF d[1] >= 8 THEN 4 ELSE IF d[1] >= 4 THEN 3 ELSE IF d[1] >= 2 THEN 2 ELSE 1)

\* Uint<BITS>::from_str: radix 16 after "0x", else radix 10; '_' is skipped; a
\* character that is no digit of the radix, or a value wider than BITS, is an error
Uint_from_str(s, bits) ==
    LET radix == IF starts_with_0x(s) THEN 16 ELSE 10
        body == SelectSeq(StripPrefix(s), LAMBDA c : c # "_")
        digits == [i \in 1..Len(body) |-> DigitVal(body[i])]
        \* base conversion; from radix 16 the digits are the value's own
        value == IF radix = 16 THEN StripZeros(digits) ELSE FromBase(<<>>, digits, radix)
    IN  IF \E i \in 1..Len(digits) : digits[i] >= radix THEN Err
        ELSE IF BitLen(value) > bits THEN Err
        ELSE Ok(value)

\* FixedBytes<N>::from_str: exactly 2N hexadecimal digits after an optional "0x"
FixedBytes_from_str(s, n) ==
    LET body == StripPrefix(s)
    IN  IF Len(body) = 2 * n /\ \A i \in 1..Len(body) : IsHexDigit(body[i])
        THEN Ok([i \in 1..Len(body) |-> HexVal(body[i])])
        ELSE Err

\* Bytes::from_str: an even number of hexadecimal digits after an optional "0x"
Bytes_from_str(s) ==
    LET body == StripPrefix(s)
    IN  IF Len(body) % 2 = 0 /\ \A i \in 1..Len(body) : IsHexDigit(body[i])
        THEN Ok([i \in 1..Len(body) |-> HexVal(body[i])])
        ELSE Err

----------------------------------------------------------------------------
(* The type guesser *)

\* sol_type!(variant, str): SolidityType::variant(str.parse().unwrap())
sol_type(variant, str) ==
    CASE variant = "Address" ->
            LET r == FixedBytes_from_str(str, 20) IN IF r.ok THEN Address(r.x) ELSE Panic
      [] variant = "Uint" ->
            LET r == Uint_from_str(str, 256) IN IF r.ok THEN Uint(r.x) ELSE Panic
      [] variant = "ByteArray" ->
            LET r == Bytes_from_str(str) IN IF r.ok THEN ByteArray(r.x) ELSE Panic
      [] variant = "String" -> String(str)

\* Regex::new(r"_\d+").find(key): the leftmost match, "\d+" taking every digit
\* that follows; <<>> when there is no match
RegexFind(k) ==
    LET starts == {i \in 1..(Len(k) - 1) : k[i] = "_" /\ IsDecDigit(k[i + 1])}
    IN  IF starts = {} THEN <<>>
        ELSE LET a == CHOOSE i \in starts : \A i2 \in starts : i <= i2
                 b == CHOOSE e \in (a + 1)..Len(k) :
                          /\ \A i \in (a + 1)..e : IsDecDigit(k[i])
                          /\ (e = Len(k) \/ ~IsDecDigit(k[e + 1]))
             IN  SubSeq(k, a, b)

\* variant: the regex only has to match somewhere in the key
keys_match_partial(o) == \A i \in 1..Len(o) : RegexFind(o[i].k) # <<>>

\* keys.all(|key| the match of the regex is the whole key)
keys_match(o) == \A i \in 1..Len(o) : RegexFind(o[i].k) # <<>> /\ RegexFind(o[i].k) = o[i].k

\* variant: the bytes check taken before the 66-character check, with >=
guess_string_ge(s) ==
    IF starts_with_0x(s) /\ Len(s) = 42 THEN sol_type("Address", s)
    ELSE IF starts_with_0x(s) /\ Len(s) >= 66 THEN sol_type("ByteArray", s)
    ELSE IF starts_with_0x(s) THEN sol_type("Uint", s)
    ELSE sol_type("String", s)

\* variant: no string is taken for bytes
guess_string_no_bytes(s) ==
    IF starts_with_0x(s) /\ Len(s) = 42 THEN sol_type("Address", s)
    ELSE IF starts_with_0x(s) THEN sol_type("Uint", s)
    ELSE sol_type("String", s)

\* the Value::String arm
guess_string(s) ==
    IF starts_with_0x(s) /\ Len(s) = 42 THEN sol_type("Address", s)
    ELSE IF starts_with_0x(s) /\ Len(s) = 66 THEN sol_type("Uint", s)
    ELSE IF starts_with_0x(s) /\ Len(s) > 66 THEN sol_type("ByteArray", s)
    ELSE IF starts_with_0x(s) THEN sol_type("Uint", s)
    ELSE sol_type("String", s)

\* the values of an object that passed the tuple check
\* variant: a single field is not unwrapped
tuple_or_single_wrapped(values) == Tuple(values)

tuple_or_single(values) ==
    IF Len(values) = 1 THEN values[1] ELSE Tuple(values)

\* the entries of an object that failed the tuple check, collected into a HashMap
struct_of(o, values) ==
    Struct([k \in Keys(o) |-> values[CHOOSE i \in 1..Len(o) : o[i].k = k]])

RECURSIVE guess_json_value(_)
guess_json_value(value) ==
    CASE value.j = "bool" -> Boolean(IF value.b THEN 1 ELSE 0)
      [] value.j = "str" -> guess_string(value.s)
      [] value.j = "obj" ->
            LET values == [i \in 1..Len(value.o) |-> guess_json_value(value.o[i].v)]
            IN  IF \E i \in 1..Len(values) : values[i] = Panic THEN Panic
                ELSE IF keys_match(value.o) THEN tuple_or_single(values)
                ELSE struct_of(value.o, values)
      [] value.j = "arr" ->
            LET values == [i \in 1..Len(value.a) |-> guess_json_value(value.a[i])]
            IN  IF \E i \in 1..Len(values) : values[i] = Panic THEN Panic
                ELSE List(values)
      [] value.j = "null" -> Panic   \* todo!("Null types shouldn't be returned?")
      [] value.j = "num" -> IF value.n < 0 THEN Panic ELSE Uint(NatToNibbles(value.n))

----------------------------------------------------------------------------
(* The serde representation: #[serde(tag = "type", content = "value", rename_all = "camelCase")] *)

\* variant: the names lower-cased instead of camelCase
variant_tag_lower(t) ==
    CASE t = "Boolean" -> Tag_boolean
      [] t = "Enum" -> Tag_enum
      [] t = "Uint" -> Tag_uint
      [] t = "Address" -> Tag_address
      [] t = "ByteArray" -> <<"b", "y", "t", "e", "a", "r", "r", "a", "y">>
      [] t = "FixedArray" -> <<"f", "i", "x", "e", "d", "a", "r", "r", "a", "y">>
      [] t = "String" -> Tag_string
      [] t = "Tuple" -> Tag_tuple
      [] t = "List" -> Tag_list
      [] t = "Struct" -> Tag_struct

\* the name a variant is written under
variant_tag(t) ==
    CASE t = "Boolean" -> Tag_boolean
      [] t = "Enum" -> Tag_enum
      [] t = "Uint" -> Tag_uint
      [] t = "Address" -> Tag_address
      [] t = "ByteArray" -> Tag_byteArray
      [] t = "FixedArray" -> Tag_fixedArray
      [] t = "String" -> Tag_string
      [] t = "Tuple" -> Tag_tuple
      [] t = "List" -> Tag_list
      [] t = "Struct" -> Tag_struct

Tagged(tag, payload) ==
    JObject(MapInsert(MapInsert(<<>>, Key_value, payload), Key_type, JString(tag)))

\* Serialize of Uint<BITS>: "0x0", or "0x" and the hexadecimal digits without leading zeros
UintText(d) == S_0x \o (IF d = <<>> THEN <<"0">> ELSE HexText(d))

\* Serialize of Address, Bytes and B256: "0x" and two hexadecimal digits a byte
BytesText(h) == S_0x \o HexText(h)

RECURSIVE MapOf(_, _)
MapOf(f, ks) ==
    IF ks = {} THEN <<>>
    ELSE LET k == CHOOSE k \in ks : TRUE
         IN  MapInsert(MapOf(f, ks \ {k}), k, f[k])

\* Serialize for SolidityType; Null is #[serde(skip)] and cannot be written
RECURSIVE serialize(_)
serialize(v) ==
    CASE v.t = "Null" -> Err
      [] v.t \in {"Boolean", "Enum"} -> Ok(Tagged(variant_tag(v.t), JString(UintText(NatToNibbles(v.n)))))
      [] v.t = "Uint" -> Ok(Tagged(variant_tag(v.t), JString(UintText(v.h))))
      [] v.t \in {"Address", "ByteArray", "FixedArray"} ->
            Ok(Tagged(variant_tag(v.t), JString(BytesText(v.h))))
      [] v.t = "String" -> Ok(Tagged(variant_tag(v.t), JString(v.s)))
      [] v.t \in {"Tuple", "List"} ->
            LET parts == [i \in 1..Len(v.items) |-> serialize(v.items[i])]
            IN  IF \E i \in 1..Len(parts) : ~parts[i].ok THEN Err
                ELSE Ok(Tagged(variant_tag(v.t), JArray([i \in 1..Len(parts) |-> parts[i].x])))
      [] v.t = "Struct" ->
            LET parts == [k \in DOMAIN v.fields |-> serialize(v.fields[k])]
            IN  IF \E k \in DOMAIN parts : ~parts[k].ok THEN Err
                ELSE Ok(Tagged(variant_tag(v.t),
                               JObject(MapOf([k \in DOMAIN parts |-> parts[k].x], DOMAIN parts))))

\* Deserialize for SolidityType: the "type" entry names the variant, the "value"
\* entry holds its payload; an unknown name or an ill-formed payload is an error
RECURSIVE deserialize(_)
deserialize(value) ==
    IF value.j # "obj" \/ ~({Key_type, Key_value} \subseteq Keys(value.o)) THEN Err
    ELSE IF Lookup(value.o, Key_type).j # "str" THEN Err
    ELSE
    LET tag == Lookup(value.o, Key_type).s
        payload == Lookup(value.o, Key_value)
    IN  CASE tag = Tag_boolean /\ payload.j = "str" ->
                LET r == Uint_from_str(payload.s, 1) IN IF r.ok THEN Ok(Boolean(NibblesToNat(r.x))) ELSE Err
          [] tag = Tag_enum /\ payload.j = "str" ->
                LET r == Uint_from_str(payload.s, 8) IN IF r.ok THEN Ok(Enum(NibblesToNat(r.x))) ELSE Err
          [] tag = Tag_uint /\ payload.j = "str" ->
                LET r == Uint_from_str(payload.s, 256) IN IF r.ok THEN Ok(Uint(r.x)) ELSE Err
          [] tag = Tag_address /\ payload.j = "str" ->
                LET r == FixedBytes_from_str(payload.s, 20) IN IF r.ok THEN Ok(Address(r.x)) ELSE Err
          [] tag = Tag_byteArray /\ payload.j = "str" ->
                LET r == Bytes_from_str(payload.s) IN IF r.ok THEN Ok(ByteArray(r.x)) ELSE Err
          [] tag = Tag_fixedArray /\ payload.j = "str" ->
                LET r == FixedBytes_from_str(payload.s, 32) IN IF r.ok THEN Ok(FixedArray(r.x)) ELSE Err
          [] tag = Tag_string /\ payload.j = "str" -> Ok(String(payload.s))
          [] tag \in {Tag_tuple, Tag_list} /\ payload.j = "arr" ->
                LET parts == [i \in 1..Len(payload.a) |-> deserialize(payload.a[i])]
                    items == [i \in 1..Len(parts) |-> parts[i].x]
                IN  IF \E i \in 1..Len(parts) : ~parts[i].ok THEN Err
                    ELSE IF tag = Tag_tuple THEN Ok(Tuple(items)) ELSE Ok(List(items))
          [] tag = Tag_struct /\ payload.j = "obj" ->
                LET parts == [k \in Keys(payload.o) |-> deserialize(Lookup(payload.o, k))]
                IN  IF \E k \in DOMAIN parts : ~parts[k].ok THEN Err
                    ELSE Ok(Struct([k \in DOMAIN parts |-> parts[k].x]))
          [] OTHER -> Err

----------------------------------------------------------------------------
(* get and insert *)

RECURSIVE DigitsValue(_)
DigitsValue(s) ==
    IF s = <<>> THEN 0 ELSE 10 * DigitsValue(SubSeq(s, 1, Len(s) - 1)) + HexVal(s[Len(s)])

\* key.parse::<usize>(): one or more decimal digits
parse_usize(k) ==
    IF k # <<>> /\ \A i \in 1..Len(k) : IsDecDigit(k[i]) THEN Ok(DigitsValue(k)) ELSE Err

\* Vec::insert(index, element): the elements from index on move one place to the right
vec_insert(items, index, element) ==
    SubSeq(items, 1, index) \o <<element>> \o SubSeq(items, index + 1, Len(items))

\* variant: inserting into a value that is no composite is fatal
insert_composite_only(self, k, value) ==
    CASE self.t \in {"Tuple", "List"} ->
            LET index == parse_usize(k)
            IN  IF ~index.ok THEN Panic
                ELSE IF index.x > Len(self.items) THEN Panic
                ELSE [self EXCEPT !.items = vec_insert(self.items, index.x, value)]
      [] self.t = "Struct" ->
            Struct([f \in DOMAIN self.fields \cup {k} |-> IF f = k THEN value ELSE self.fields[f]])
      [] OTHER -> Panic

\* SolidityType::insert: self afterwards, or Panic
insert(self, k, value) ==
    CASE self.t \in {"Tuple", "List"} ->
            LET index == parse_usize(k)
            IN  IF ~index.ok THEN Panic          \* .expect("Couldn't parse key into number ...")
                ELSE IF index.x > Len(self.items) THEN Panic     \* Vec::insert: index > len
                ELSE [self EXCEPT !.items = vec_insert(self.items, index.x, value)]
      [] self.t = "Struct" ->
            Struct([f \in DOMAIN self.fields \cup {k} |-> IF f = k THEN value ELSE self.fields[f]])
      [] OTHER -> self

\* variant: an index out of range or a missing field is fatal
get_strict(self, k) ==
    CASE self.t \in {"Tuple", "List"} ->
            LET index == parse_usize(k)
            IN  IF ~index.ok THEN Panic
                ELSE IF index.x < Len(self.items) THEN self.items[index.x + 1] ELSE Panic
      [] self.t = "Struct" -> IF k \in DOMAIN self.fields THEN self.fields[k] ELSE Panic
      [] OTHER -> Null

\* variant: the key is parsed before the length is looked at
get_parse_first(self, k) ==
    CASE self.t \in {"Tuple", "List"} ->
            LET index == parse_usize(k)
            IN  IF ~index.ok THEN Panic
                ELSE IF index.x < Len(self.items) THEN self.items[index.x + 1] ELSE Null
      [] self.t = "Struct" -> IF k \in DOMAIN self.fields THEN self.fields[k] ELSE Null
      [] OTHER -> Null

\* SolidityType::get: the value returned, or Panic
get(self, k) ==
    CASE self.t \in {"Tuple", "List"} ->
            IF Len(self.items) = 0 THEN Null
            ELSE LET index == parse_usize(k)
                 IN  IF ~index.ok THEN Panic     \* .expect("Couldn't parse key into number ...")
                     ELSE IF index.x < Len(self.items) THEN self.items[index.x + 1] ELSE Null
      [] self.t = "Struct" -> IF k \in DOMAIN self.fields THEN self.fields[k] ELSE Null
      [] OTHER -> Null

----------------------------------------------------------------------------
(* ToString *)

\* a big-endian sequence of hexadecimal digits as 16-bit limbs, most significant first
Limbs(d) ==
    LET n == (Len(d) + 3) \div 4
        p == Repeat(0, 4 * n - Len(d)) \o d
    IN  [i \in 1..n |-> 4096 * p[4 * i - 3] + 256 * p[4 * i - 2] + 16 * p[4 * i - 1] + p[4 * i]]

\* the quotient, with its leading zeros, and the remainder of a sequence of limbs
\* divided by 10^4
DivRemLimbs(l) ==
    LET rem[i \in 0..Len(l)] == IF i = 0 THEN 0 ELSE (65536 * rem[i - 1] + l[i]) % 10000
    IN  [q |-> [i \in 1..Len(l) |-> (65536 * rem[i - 1] + l[i]) \div 10000], r |-> rem[Len(l)]]

\* the decimal digits of a sequence of limbs, four at a time
RECURSIVE ToDecimal(_)
ToDecimal(l) ==
    IF l = <<>> THEN <<>>
    ELSE LET x == DivRemLimbs(l)
             r == x.r
         IN  ToDecimal(StripZeros(x.q))
                 \o <<r \div 1000, (r \div 100) % 10, (r \div 10) % 10, r % 10>>

\* Display of Uint<BITS, LIMBS> and of u8: the decimal digits, "0" for zero
Uint_to_string(d) ==
    LET digits == StripZeros(ToDecimal(StripZeros(Limbs(d))))
    IN  IF digits = <<>> THEN <<"0">> ELSE [i \in 1..Len(digits) |-> DecDigits[digits[i] + 1]]

\* the address of the serialization test: 000000000000Ad05Ccc4F10045630fb830B95127
TestAddress ==
    <<0, 0, 0, 0, 0, 0, 0, 0, 0, 0, 0, 0, 10, 13, 0, 5, 12, 12, 12, 4,
      15, 1, 0, 0, 4, 5, 6, 3, 0, 15, 11, 8, 3, 0, 11, 9, 5, 1, 2, 7>>

\* the address of the tests as its literal spells it, which is its EIP-55 form
TestAddressText ==
    <<"0", "0", "0", "0", "0", "0", "0", "0", "0", "0", "0", "0", "A", "d", "0", "5", "C", "c", "c", "4",
      "F", "1", "0", "0", "4", "5", "6", "3", "0", "f", "b", "8", "3", "0", "B", "9", "5", "1", "2", "7">>

\* Display of Address: "0x" and the 40 digits in EIP-55 mixed case.  Which letters
\* are upper case follows from a Keccak-256 hash of the lower-case digits; the
\* hash is tabulated for the address of the tests, and plays no part for an
\* address whose digits are all decimal
Address_to_string(h) ==
    S_0x \o (IF h = TestAddress THEN TestAddressText ELSE HexText(h))

\* Display of Bytes and of FixedBytes<N>: "0x" and two lower-case digits a byte
Bytes_to_string(h) == S_0x \o HexText(h)

S_true == <<"t", "r", "u", "e">>
S_false == <<"f", "a", "l", "s", "e">>
S_null == <<"n", "u", "l", "l">>

\* variant: a Boolean is written as the digit it holds
to_string_digit(self) ==
    CASE self.t = "Boolean" -> Ok(Uint_to_string(NatToNibbles(self.n)))
      [] self.t = "Enum" -> Ok(Uint_to_string(NatToNibbles(self.n)))
      [] self.t = "Uint" -> Ok(Uint_to_string(self.h))
      [] self.t = "Address" -> Ok(Address_to_string(self.h))
      [] self.t \in {"ByteArray", "FixedArray"} -> Ok(Bytes_to_string(self.h))
      [] self.t = "String" -> Ok(self.s)
      [] self.t = "Null" -> Ok(S_null)
      [] OTHER -> Panic

\* <SolidityType as ToString>::to_string: Ok(text), or Panic for a Tuple, a List or a Struct
to_string(self) ==
    CASE self.t = "Boolean" -> Ok(IF self.n = 0 THEN S_false ELSE S_true)
      [] self.t = "Enum" -> Ok(Uint_to_string(NatToNibbles(self.n)))
      [] self.t = "Uint" -> Ok(Uint_to_string(self.h))
      [] self.t = "Address" -> Ok(Address_to_string(self.h))
      [] self.t \in {"ByteArray", "FixedArray"} -> Ok(Bytes_to_string(self.h))
      [] self.t = "String" -> Ok(self.s)
      [] self.t = "Null" -> Ok(S_null)
      [] OTHER -> Panic

----------------------------------------------------------------------------
(* map, filter and to_maybe_value *)

\* the callbacks handed to map and filter, by name
F_id == <<"i", "d">>
F_null == <<"n", "u", "l", "l">>
F_get0 == <<"g", "e", "t", "0">>
F_is_uint == <<"i", "s", "_", "u", "i", "n", "t">>
F_text_or_null == <<"t", "e", "x", "t", "_", "o", "r", "_", "n", "u", "l", "l">>

Callbacks == {F_id, F_null, F_get0, F_is_uint, F_text_or_null}

\* callback(item) of a closure Fn(&SolidityType) -> SolidityType:
\*   id            |item| item.clone()
\*   null          |_| SolidityType::Null
\*   get0          |item| item.get("0")
\*   is_uint       |item| SolidityType::from(matches!(item, SolidityType::Uint(_)))
\*   text_or_null  |item| if a String then SolidityType::from(true) else SolidityType::Null
callback(f, item) ==
    CASE f = F_id -> item
      [] f = F_null -> Null
      [] f = F_get0 -> get(item, S_0)
      [] f = F_is_uint -> Boolean(IF item.t = "Uint" THEN 1 ELSE 0)
      [] f = F_text_or_null -> IF item.t = "String" THEN Boolean(1) ELSE Null

\* variant: a sequence that maps to nothing gives the empty List
map_no_collapse(self, f) ==
    CASE self.t \in {"Tuple", "List"} ->
            List(SelectSeq([i \in 1..Len(self.items) |-> callback(f, self.items[i])],
                           LAMBDA value : value # Null))
      [] self.t = "Null" -> Null
      [] OTHER -> Panic

\* SolidityType::map: the value returned, or Panic
map(self, f) ==
    CASE self.t \in {"Tuple", "List"} ->
            LET values == SelectSeq([i \in 1..Len(self.items) |-> callback(f, self.items[i])],
                                    LAMBDA value : value # Null)
            IN  IF Len(values) = 0 THEN Null ELSE List(values)
      [] self.t = "Null" -> Null
      [] OTHER -> Panic       \* "Tried to map over a struct!", "Tried to map over a scalar value!"

\* variant: whatever the callback returns that is no Boolean drops the element
filter_lenient(self, f) ==
    CASE self.t \in {"Tuple", "List"} ->
            LET values == SelectSeq(self.items, LAMBDA item : callback(f, item).t = "Boolean"
                                                              /\ callback(f, item).n # 0)
            IN  IF Len(values) = 0 THEN Null ELSE List(values)
      [] self.t = "Null" -> Null
      [] OTHER -> Panic

\* SolidityType::filter: the value returned, or Panic
filter(self, f) ==
    CASE self.t \in {"Tuple", "List"} ->
            IF \E i \in 1..Len(self.items) : callback(f, self.items[i]).t \notin {"Boolean", "Null"}
            THEN Panic      \* "... found a non boolean or null value!"
            ELSE LET values == SelectSeq(self.items, LAMBDA item : callback(f, item).t = "Boolean"
                                                                   /\ callback(f, item).n # 0)
                 IN  IF Len(values) = 0 THEN Null ELSE List(values)
      [] self.t = "Null" -> Null
      [] OTHER -> Panic       \* "Tried to filter over a struct!", "... a scalar value!"

\* Option<SolidityType>: None, or the value itself for Some(value)
None == [t |-> "None"]

\* variant: only the Nulls directly below the value are stripped
to_maybe_value_shallow(self) ==
    CASE self.t \in {"Tuple", "List"} ->
            IF Len(self.items) = 0 THEN None
            ELSE [self EXCEPT !.items = SelectSeq(self.items, LAMBDA x : x # Null)]
      [] self.t = "Struct" ->
            LET present == {k \in DOMAIN self.fields : self.fields[k] # Null}
            IN  IF present = {} THEN None ELSE Struct([k \in present |-> self.fields[k]])
      [] self.t = "Null" -> None
      [] OTHER -> self

\* SolidityType::to_maybe_value.  A Tuple or List is None when it has no element
\* to begin with (vals.len() == 0), a Struct when no field is left (iter.is_empty())
RECURSIVE to_maybe_value(_)
to_maybe_value(self) ==
    CASE self.t \in {"Tuple", "List"} ->
            LET values == SelectSeq([i \in 1..Len(self.items) |-> to_maybe_value(self.items[i])],
                                    LAMBDA x : x # None)
            IN  IF Len(self.items) = 0 THEN None ELSE [self EXCEPT !.items = values]
      [] self.t = "Struct" ->
            LET m == [k \in DOMAIN self.fields |-> to_maybe_value(self.fields[k])]
                present == {k \in DOMAIN self.fields : m[k] # None}
            IN  IF present = {} THEN None ELSE Struct([k \in present |-> m[k]])
      [] self.t = "Null" -> None
      [] OTHER -> self

----------------------------------------------------------------------------
(* Addition and comparison *)

\* a big-endian digit sequence with zeros in front, w digits long
PadTo(d, w) == Repeat(0, w - Len(d)) \o d

\* the last w hexadecimal digits of a + b: digit by digit, with the carry that
\* comes in from the digits to the right
AddDigits(a, b, w) ==
    LET x == PadTo(a, w)
        y == PadTo(b, w)
        carry(i) == \E j \in (i + 1)..w : /\ x[j] + y[j] > 15
                                          /\ \A k \in (i + 1)..(j - 1) : x[k] + y[k] = 15
    IN  [i \in 1..w |-> (x[i] + y[i] + (IF carry(i) THEN 1 ELSE 0)) % 16]

\* Uint<256, 4> + Uint<256, 4>: wrapping_add, the sum modulo 2^256
wrapping_add(a, b) == StripZeros(AddDigits(a, b, 64))

\* variant: a String takes only a String
add_text_only(self, rhs) ==
    IF self = Null THEN rhs
    ELSE IF rhs = Null THEN self
    ELSE IF self.t = "String"
    THEN IF rhs.t = "String" THEN String(self.s \o rhs.s) ELSE Panic
    ELSE IF self.t = "Uint" /\ rhs.t = "Uint" THEN Uint(wrapping_add(self.h, rhs.h))
    ELSE Panic

\* variant: Null on the right is an operand like any other
add_left_identity(self, rhs) ==
    IF self = Null THEN rhs
    ELSE IF self.t = "String"
    THEN LET text == to_string(rhs)
         IN  IF text = Panic THEN Panic ELSE String(self.s \o text.x)
    ELSE IF self.t = "Uint" /\ rhs.t = "Uint" THEN Uint(wrapping_add(self.h, rhs.h))
    ELSE Panic

\* <SolidityType as Add>::add: the sum, or Panic
add(self, rhs) ==
    IF self = Null THEN rhs
    ELSE IF rhs = Null THEN self
    ELSE IF self.t = "String"
    THEN LET text == to_string(rhs)
         IN  IF text = Panic THEN Panic ELSE String(self.s \o text.x)
    ELSE IF self.t = "Uint" /\ rhs.t = "Uint" THEN Uint(wrapping_add(self.h, rhs.h))
    ELSE Panic      \* "Can't add ... together!"

\* digit sequences of one length, compared from the left
DigitsLess(a, b) == \E i \in 1..Len(a) : a[i] < b[i] /\ \A j \in 1..(i - 1) : a[j] = b[j]

\* Ord of Uint, on digit sequences without leading zeros
UintLess(a, b) == Len(a) < Len(b) \/ (Len(a) = Len(b) /\ DigitsLess(a, b))

\* the last w hexadecimal digits of a - b, as a plus the complement of b plus one
SubDigits(a, b, w) ==
    LET y == PadTo(b, w)
        complement == [i \in 1..w |-> 15 - y[i]]
        sum == AddDigits(a, complement, w)
    IN  AddDigits(SubSeq(sum, 1, w), <<1>>, w)

\* Uint<256, 4> - Uint<256, 4>: wrapping_sub, the difference modulo 2^256
wrapping_sub(a, b) == StripZeros(SubDigits(a, b, 64))

\* a big-endian sequence of hexadecimal digits as n limbs of 12 bits, the least
\* significant limb at index 0
Limbs12(d, n) ==
    LET p == PadTo(d, 3 * n)
    IN  [i \in 0..(n - 1) |-> 256 * p[3 * (n - i) - 2] + 16 * p[3 * (n - i) - 1] + p[3 * (n - i)]]

\* the hexadecimal digits of n limbs of 12 bits, most significant first
FromLimbs12(l, n) ==
    LET digits == [j \in 1..(3 * n) |->
                      LET limb == l[n - 1 - ((j - 1) \div 3)]
                      IN  CASE j % 3 = 1 -> limb \div 256
                            [] j % 3 = 2 -> (limb \div 16) % 16
                            [] OTHER -> limb % 16]
    IN  SubSeq(digits, 1, 3 * n)

\* b * m for m below 4096, limb by limb with the carry
TimesSmall(b, m) ==
    LET n == (Len(b) + 2) \div 3 + 1
        x == Limbs12(b, n)
        carry[i \in -1..(n - 1)] == IF i < 0 THEN 0 ELSE (x[i] * m + carry[i - 1]) \div 4096
    IN  StripZeros(FromLimbs12([i \in 0..(n - 1) |-> (x[i] * m + carry[i - 1]) % 4096], n))

\* Uint<256, 4> * Uint<256, 4>: wrapping_mul, the product modulo 2^256: the limbs
\* of the product are the sums of the columns of limb products, with the carry
wrapping_mul(a, b) ==
    LET x == Limbs12(a, 22)
        y == Limbs12(b, 22)
        column(k) == LET sum[i \in -1..k] == IF i < 0 THEN 0 ELSE sum[i - 1] + x[i] * y[k - i]
                     IN  sum[k]
        carry[k \in -1..21] == IF k < 0 THEN 0 ELSE (column(k) + carry[k - 1]) \div 4096
    IN  StripZeros(SubSeq(FromLimbs12([k \in 0..21 |-> (column(k) + carry[k - 1]) % 4096], 22), 3, 66))

\* one step of the long division by b: the next digit of the dividend is taken
\* down; the digit of the quotient is the number of multiples of b that fit
DivStep(before, digit, b) ==
    LET part == StripZeros(Append(before.r, digit))
        fit == Cardinality({k \in 1..15 : ~UintLess(part, TimesSmall(b, k))})
    IN  [q |-> StripZeros(Append(before.q, fit)),
         r |-> StripZeros(SubDigits(part, TimesSmall(b, fit), 66))]

\* the long division by b of the digits that follow a remainder below b: the
\* digits are divided half by half, the remainder of the first half being
\* carried into the second
RECURSIVE DivDigits(_, _, _)
DivDigits(r, digits, b) ==
    IF Len(digits) = 0 THEN [q |-> <<>>, r |-> r]
    ELSE IF Len(digits) = 1 THEN DivStep([q |-> <<>>, r |-> r], digits[1], b)
    ELSE LET half == Len(digits) \div 2
             first == DivDigits(r, SubSeq(digits, 1, half), b)
             second == DivDigits(first.r, SubSeq(digits, half + 1, Len(digits)), b)
         IN  [q |-> StripZeros(first.q \o PadTo(second.q, Len(digits) - half)), r |-> second.r]

\* Uint::div_rem for a divisor that is not zero
div_rem(a, b) == DivDigits(<<>>, a, b)

\* variant: Null is no operand of -
sub_strict(self, rhs) ==
    IF self.t = "Uint" /\ rhs.t = "Uint" THEN Uint(wrapping_sub(self.h, rhs.h))
    ELSE Panic

\* <SolidityType as Sub>::sub: the difference, or Panic
sub(self, rhs) ==
    IF self = Null THEN rhs
    ELSE IF rhs = Null THEN self
    ELSE IF self.t = "Uint" /\ rhs.t = "Uint" THEN Uint(wrapping_sub(self.h, rhs.h))
    ELSE Panic      \* "Can't add ...! Both values must be a uint!"

\* <SolidityType as Mul>::mul: the product, or Panic
mul(self, rhs) ==
    IF self = Null THEN Null
    ELSE IF rhs = Null THEN Null
    ELSE IF self.t = "Uint" /\ rhs.t = "Uint" THEN Uint(wrapping_mul(self.h, rhs.h))
    ELSE Panic

\* <SolidityType as Div>::div: the quotient, or Panic; lh / rh panics when rh is zero
div(self, rhs) ==
    IF self = Null THEN Null
    ELSE IF rhs = Null THEN Null
    ELSE IF self.t = "Uint" /\ rhs.t = "Uint"
    THEN IF rhs.h = <<>> THEN Panic ELSE Uint(div_rem(self.h, rhs.h).q)
    ELSE Panic

\* bool and Option<Ordering>, the results of the comparisons
Bool(b) == [t |-> "bool", is |-> b]
Ordering(o) == [t |-> "Ordering", ord |-> o]


cmp(less, equal) == Ordering(IF equal THEN "Equal" ELSE IF less THEN "Less" ELSE "Greater")

\* <SolidityType as PartialEq>::eq
eq(self, rhs) ==
    IF self.t = "Uint" /\ rhs.t = "Uint" THEN Bool(self.h = rhs.h)
    ELSE IF self.t = "Address" /\ rhs.t = "Address" THEN Bool(self.h = rhs.h)
    ELSE Panic      \* "Can't compare ..."

\* <SolidityType as PartialEq>::ne
ne(self, rhs) ==
    IF self.t = "Uint" /\ rhs.t = "Uint" THEN Bool(self.h # rhs.h)
    ELSE IF self.t = "Address" /\ rhs.t = "Address" THEN Bool(self.h # rhs.h)
    ELSE Panic

\* variant: addresses have no order
partial_cmp_no_address(self, rhs) ==
    IF self.t = "Uint" /\ rhs.t = "Uint" THEN cmp(UintLess(self.h, rhs.h), self.h = rhs.h)
    ELSE IF self.t = "String" /\ rhs.t = "String" THEN cmp(StrLess(self.s, rhs.s), self.s = rhs.s)
    ELSE Panic

\* <SolidityType as PartialOrd>::partial_cmp
partial_cmp(self, rhs) ==
    IF self.t = "Uint" /\ rhs.t = "Uint" THEN cmp(UintLess(self.h, rhs.h), self.h = rhs.h)
    ELSE IF self.t = "String" /\ rhs.t = "String" THEN cmp(StrLess(self.s, rhs.s), self.s = rhs.s)
    ELSE IF self.t = "Address" /\ rhs.t = "Address" THEN cmp(DigitsLess(self.h, rhs.h), self.h = rhs.h)
    ELSE Panic      \* "Can't compare ..."

----------------------------------------------------------------------------
(* The casts: address, string, uint and bytes *)

\* type_casts::address: an Address, Null, or Panic.  Address::from_slice panics
\* unless the slice has 20 bytes, and &val[2..] panics on fewer than 2 bytes
address(value) ==
    CASE value.t = "Boolean" -> IF value.n = 0 THEN Address(Repeat(0, 40)) ELSE Panic
      [] value.t = "Uint" -> Address(SubSeq(PadTo(value.h, 64), 25, 64))
      [] value.t = "Enum" -> Address(PadTo(NatToNibbles(value.n), 40))
      [] value.t = "Address" -> value
      [] value.t = "ByteArray" ->
            LET len == Len(value.h) \div 2
            IN  IF len <= 22
                THEN IF len < 2 \/ len - 2 # 20 THEN Panic
                     ELSE Address(SubSeq(value.h, 5, Len(value.h)))
                ELSE Address(SubSeq(value.h, 5, 44))
      [] value.t = "FixedArray" -> Address(SubSeq(value.h, 25, 64))
      [] value.t = "String" ->
            LET parsed == FixedBytes_from_str(value.s, 20)
            IN  IF parsed.ok THEN Address(parsed.x) ELSE Null
      [] OTHER -> Null

\* type_casts::string: a String or Null
string(value) ==
    CASE value.t = "Boolean" -> String(IF value.n = 0 THEN S_false ELSE S_true)
      [] value.t = "Uint" -> String(Uint_to_string(value.h))
      [] value.t = "Enum" -> String(Uint_to_string(NatToNibbles(value.n)))
      [] value.t = "Address" -> String(Address_to_string(value.h))
      [] value.t \in {"ByteArray", "FixedArray"} -> String(Bytes_to_string(value.h))
      [] value.t = "String" -> value
      [] OTHER -> Null

\* type_casts::uint: a Uint, Null, or Panic.  Uint::from_be_slice panics when the
\* bytes hold a value of more than 256 bits
uint(value) ==
    CASE value.t = "Boolean" -> Uint(IF value.n = 0 THEN <<>> ELSE <<1>>)
      [] value.t = "Uint" -> value
      [] value.t = "Enum" -> Uint(NatToNibbles(value.n))
      [] value.t \in {"Address", "FixedArray"} -> Uint(StripZeros(value.h))
      [] value.t = "ByteArray" ->
            IF BitLen(StripZeros(value.h)) > 256 THEN Panic ELSE Uint(StripZeros(value.h))
      [] value.t = "String" ->
            LET parsed == Uint_from_str(value.s, 256)
            IN  IF parsed.ok THEN Uint(parsed.x) ELSE Null
      [] OTHER -> Null

\* type_casts::bytes: a ByteArray or Null
bytes(value) ==
    CASE value.t = "Boolean" -> ByteArray(IF value.n = 0 THEN <<0, 0>> ELSE <<0, 1>>)
      [] value.t = "Uint" -> ByteArray(PadTo(value.h, 64))
      [] value.t = "Enum" -> ByteArray(<<value.n \div 16, value.n % 16>>)
      [] value.t \in {"Address", "FixedArray"} -> ByteArray(value.h)
      [] value.t = "ByteArray" -> value
      [] value.t = "String" ->
            LET parsed == Bytes_from_str(value.s)
            IN  IF parsed.ok THEN ByteArray(parsed.x) ELSE Null
      [] OTHER -> Null

\* the four casts by name
Casts == {"address", "string", "uint", "bytes"}

cast(name, value) ==
    CASE name = "address" -> address(value)
      [] name = "string" -> string(value)
      [] name = "uint" -> uint(value)
      [] name = "bytes" -> bytes(value)

----------------------------------------------------------------------------
(* The logs of a block: alloy_logs and get_events *)

Key_tx_meta == <<"t", "x", "_", "m", "e", "t", "a">>

\* format_hex: "0x" and two lower-case hexadecimal digits a byte
format_hex(input) == S_0x \o HexText(input)

\* TxMeta::from_log and TxMeta::new: the from and to of the transaction of the
\* log, formatted and parsed again as addresses, and the number of the block,
\* parsed from its decimal digits; Panic when one of them does not parse
from_log(value, block_number) ==
    LET from == sol_type("Address", format_hex(value.from))
        to == sol_type("Address", format_hex(value.to))
        number == sol_type("Uint", block_number)
    IN  IF from = Panic \/ to = Panic \/ number = Panic THEN Panic
        ELSE [from |-> from, to |-> to, block_number |-> number]

\* Serialize of TxMeta: its three fields, each as SolidityJsonValue writes it
TxMeta_to_value(meta) ==
    JObject(MapInsert(MapInsert(MapInsert(<<>>,
        <<"f", "r", "o", "m">>, serialize(meta.from).x),
        <<"t", "o">>, serialize(meta.to).x),
        <<"b", "l", "o", "c", "k", "_", "n", "u", "m", "b", "e", "r">>, serialize(meta.block_number).x))

\* Block::alloy_logs: the logs of the block that pass the filter, in the order of
\* the block, each with the TxMeta of its transaction, as Ok of the pairs; Panic
\* when a TxMeta cannot be built
alloy_logs(self, addresses) ==
    LET block_number == Uint_to_string(NatToNibbles(self.number))
        kept == SelectSeq(self.logs, LAMBDA log : addresses = {} \/ log.address \in addresses)
        pairs == [i \in 1..Len(kept) |-> [log |-> kept[i], meta |-> from_log(kept[i], block_number)]]
    IN  IF \E i \in 1..Len(pairs) : pairs[i].meta = Panic THEN Panic ELSE Ok(pairs)

\* a sequence of outcomes as one outcome: Ok of the sequence, or Panic when one
\* of them is Panic
AllOrPanic(results) ==
    IF \E i \in 1..Len(results) : results[i] = Panic THEN Panic ELSE Ok(results)

\* get_events, the event on its way to a document: to_value(event) is guessed and
\* the guess is written with to_value, both unwrapped: Err stands for the panic
tagged_event(event) ==
    LET event_guess == guess_json_value(event)
    IN  IF event_guess = Panic THEN Err ELSE serialize(event_guess)

\* get_events, the merge: the TxMeta is inserted under "tx_meta" into the object
\* under "value" of the event as it was written; Panic when the written event is
\* no object, holds "tx_meta" itself, or holds no object under "value"
insert_tx_meta(as_value, meta) ==
    IF ~as_value.ok THEN Panic
    ELSE IF as_value.x.j # "obj" THEN Panic
    ELSE IF Key_tx_meta \in Keys(as_value.x.o) THEN Panic
    ELSE IF Key_value \in Keys(as_value.x.o) /\ Lookup(as_value.x.o, Key_value).j = "obj"
    THEN JObject(MapInsert(as_value.x.o, Key_value,
             JObject(MapInsert(Lookup(as_value.x.o, Key_value).o, Key_tx_meta, meta))))
    ELSE Panic

\* the closure of get_events that turns a decoded event and the TxMeta of its log
\* into a document, or Panic
event_document(event, meta) == insert_tx_meta(tagged_event(event), TxMeta_to_value(meta))

\* get_events, from the pairs of alloy_logs on: the documents of the pairs whose
\* log decodes.  What T::decode_log_object makes of a log is a part of the log:
\* Err, or Ok of the event as serde_json writes it
documents_of(logs) ==
    IF logs = Panic THEN Panic
    ELSE LET decoded == SelectSeq(logs.x, LAMBDA pair : pair.log.event.ok)
         IN  AllOrPanic([i \in 1..Len(decoded) |->
                            event_document(decoded[i].log.event.x, decoded[i].meta)])

\* <T as EventHelpers>::get_events: the documents of the logs of alloy_logs that
\* decode as the event T, as Ok of the documents, or Panic
get_events(blk, addresses) == documents_of(alloy_logs(blk, addresses))

----------------------------------------------------------------------------
(* Inputs *)


\* the keys given to objects: positional keys, and keys that only resemble them
ObjectKeys == {K_0, K_1, K_2, K_10, K_1x, K_a_1, K_underscore}

\* the values given to the fields of objects
MemberValues ==
    {JBool(TRUE), JString(S_ab), JNull, JObject(<<[k |-> K_0, v |-> JArray(<<JNumber(7)>>)]>>)}

\* the elements given to arrays
ElementValues == {JBool(FALSE), JString(S_ab), JNull, JString(<<"0", "x", "1", "f">>)}

SeqsUpTo(S, n) == UNION {[1..m -> S] : m \in 0..n}

\* "0x" followed by n copies of one character, a digit of radix 16 or not
HexStrings == {S_0x \o Repeat(c, n) : c \in {"a", "0", "z"}, n \in 0..MaxHexDigits}

OtherStrings == {<<>>, S_ab, S_x0ab, Repeat("a", 42), Repeat("a", 66), <<"0">> \o Repeat("a", 41)}

GuessInputs ==
    {JNull, JBool(TRUE), JBool(FALSE), JNumber(0), JNumber(7), JNumber(300), JObject(<<>>)}
    \cup {JString(s) : s \in HexStrings \cup OtherStrings}
    \cup {JArray(a) : a \in SeqsUpTo(ElementValues, MaxLen)}

----------------------------------------------------------------------------
(* Guessing untyped JSON: the document is put together, then guessed *)

InitGuess ==
    /\ doc \in GuessInputs
    /\ val = Null
    /\ old = Null
    /\ key = <<>>
    /\ arg = Null
    /\ ret = Null
    /\ op = "build"
    /\ status = "ok"

\* serde_json::to_value of a document: its fields are inserted into a
\* serde_json::Map one by one, in the order the document happens to yield them
ObjectInsert(k, v) ==
    /\ op = "build"
    /\ doc.j = "obj"
    /\ k \notin Keys(doc.o)
    /\ Len(doc.o) < MaxPairs
    /\ doc' = JObject(MapInsert(doc.o, k, v))
    /\ key' = k
    /\ UNCHANGED <<val, old, arg, ret, op, status>>

\* SolidityType::guess_json_value(doc)
Guess ==
    /\ op = "build"
    /\ LET g == guess_json_value(doc)
       IN  /\ status' = IF g = Panic THEN "panic" ELSE "ok"
           /\ ret' = IF g = Panic THEN Null ELSE g
    /\ op' = "guess"
    /\ UNCHANGED <<doc, val, old, key, arg>>

NextGuess ==
    \/ \E k \in ObjectKeys, v \in MemberValues : ObjectInsert(k, v)
    \/ Guess

SpecGuess == InitGuess /\ [][NextGuess]_vars

----------------------------------------------------------------------------
(* Values and the structural operations on them *)

\* a word of 32 bytes
TestWord == [i \in 1..64 |-> IF i <= 24 THEN 0 ELSE (i % 16)]

\* the values a run starts from: every scalar variant, the empty composites and Null
StartValues ==
    {Null, Boolean(0), Boolean(1), Enum(2), Enum(255),
     Uint(<<>>), Uint(NatToNibbles(42069)), Uint([i \in 1..64 |-> 15]),
     Address(TestAddress), ByteArray(<<>>), ByteArray(<<13, 14, 10, 13>>),
     FixedArray(TestWord), String(<<>>), String(S_ab), String(S_0x),
     Tuple(<<>>), List(<<>>), Struct(<<>>)}

\* the values inserted into composites
InsertValues ==
    {Null, Uint(NatToNibbles(42069)), Address(TestAddress), String(S_ab),
     List(<<Enum(2), Boolean(1), ByteArray(<<13, 14, 10, 13>>)>>),
     Struct([k \in {S_a} |-> FixedArray(TestWord)])}

\* the keys given to get and insert
AccessKeys == {S_0, S_1, S_2, S_3, S_foo}

Init ==
    /\ val \in StartValues
    /\ doc = JNull
    /\ old = Null
    /\ key = <<>>
    /\ arg = Null
    /\ ret = Null
    /\ op = "new"
    /\ status = "ok"

\* the size of a composite
Size(v) ==
    CASE v.t \in {"Tuple", "List"} -> Len(v.items)
      [] v.t = "Struct" -> Cardinality(DOMAIN v.fields)
      [] OTHER -> 0

\* val.insert(k, value)
Insert(k, value) ==
    /\ status = "ok"
    /\ Size(val) < MaxLen
    /\ LET r == insert(val, k, value)
       IN  /\ status' = IF r = Panic THEN "panic" ELSE "ok"
           /\ val' = IF r = Panic THEN val ELSE r
    /\ old' = val
    /\ key' = k
    /\ arg' = value
    /\ ret' = Null
    /\ op' = "insert"
    /\ doc' = JNull

\* val.get(k)
Get(k) ==
    /\ status = "ok"
    /\ LET r == get(val, k)
       IN  /\ status' = IF r = Panic THEN "panic" ELSE "ok"
           /\ ret' = IF r = Panic THEN Null ELSE r
    /\ old' = val
    /\ key' = k
    /\ arg' = Null
    /\ op' = "get"
    /\ doc' = JNull
    /\ UNCHANGED val

\* serde_json::to_string(&val).unwrap()
Serialize ==
    /\ status = "ok"
    /\ LET r == serialize(val)
       IN  /\ status' = IF r.ok THEN "ok" ELSE "panic"
           /\ doc' = IF r.ok THEN r.x ELSE JNull
    /\ old' = val
    /\ key' = <<>>
    /\ arg' = Null
    /\ ret' = Null
    /\ op' = "serialize"
    /\ UNCHANGED val

\* SolidityType::from(doc): serde_json::from_value(doc).unwrap()
Deserialize ==
    /\ status = "ok"
    /\ op = "serialize"
    /\ LET r == deserialize(doc)
       IN  /\ status' = IF r.ok THEN "ok" ELSE "panic"
           /\ ret' = IF r.ok THEN r.x ELSE Null
    /\ op' = "deserialize"
    /\ UNCHANGED <<doc, val, old, key, arg>>

Next ==
    \/ \E k \in AccessKeys, value \in InsertValues : Insert(k, value)
    \/ \E k \in AccessKeys : Get(k)
    \/ Serialize
    \/ Deserialize

Spec == Init /\ [][Next]_vars

----------------------------------------------------------------------------
(* The operations that read a value: map, filter, to_maybe_value, to_string, *)
(* addition and the comparisons                                              *)

\* Address::ZERO
ZeroAddress == Repeat(0, 40)

\* the elements and field values of the composites the operations are applied to
Elements ==
    {Null, Boolean(0), Boolean(1), Uint(NatToNibbles(5)), String(S_ab), Address(TestAddress),
     List(<<Null>>), Struct([k \in {S_a} |-> List(<<Null, Uint(NatToNibbles(7))>>)])}

FieldNames == {S_a, S_0, S_foo}

\* the values the operations are applied to: every scalar variant, Null, and
\* the Tuples, Lists and Structs of up to MaxLen elements
Operands ==
    StartValues
    \cup {Uint(NatToNibbles(5)), Uint(NatToNibbles(7)), Address(ZeroAddress)}
    \cup {Uint(<<8>> \o Repeat(0, 39)), ByteArray(Repeat(10, 64)), ByteArray(Repeat(10, 66))}
    \cup {ByteArray(Repeat(1, 44)), String(Address_to_string(TestAddress))}
    \cup {Tuple(items) : items \in SeqsUpTo(Elements, MaxLen)}
    \cup {List(items) : items \in SeqsUpTo(Elements, MaxLen)}
    \cup UNION {{Struct(fields) : fields \in [names -> Elements]} :
                    names \in {n \in SUBSET FieldNames : Cardinality(n) <= MaxLen}}

\* the right-hand sides of the binary operators
RightOperands ==
    {Null, Boolean(1), Enum(2), Uint(<<>>), Uint(NatToNibbles(5)), Uint(NatToNibbles(7)), Uint([i \in 1..64 |-> 15]),
     Address(TestAddress), Address(ZeroAddress), ByteArray(<<13, 14, 10, 13>>), FixedArray(TestWord),
     String(S_ab), String(S_0x), Tuple(<<>>), List(<<Uint(NatToNibbles(5))>>),
     Struct([k \in {S_a} |-> Null])}

InitOps ==
    /\ val \in Operands
    /\ doc = JNull
    /\ old = Null
    /\ key = <<>>
    /\ arg = Null
    /\ ret = Null
    /\ op = "new"
    /\ status = "ok"

\* the outcome r of an operation named name on val: none of them modifies val
Returns(name, r) ==
    /\ status' = IF r = Panic THEN "panic" ELSE "ok"
    /\ ret' = IF r = Panic THEN Null ELSE r
    /\ old' = val
    /\ op' = name
    /\ UNCHANGED val

\* val.map(f)
Map(f) ==
    /\ op = "new"
    /\ Returns("map", map(val, f))
    /\ key' = f
    /\ UNCHANGED <<doc, arg>>

\* val.filter(f)
Filter(f) ==
    /\ op = "new"
    /\ Returns("filter", filter(val, f))
    /\ key' = f
    /\ UNCHANGED <<doc, arg>>

\* val.to_maybe_value()
ToMaybeValue ==
    /\ op = "new"
    /\ Returns("to_maybe_value", to_maybe_value(val))
    /\ UNCHANGED <<doc, key, arg>>

\* val.to_string(): the text is left in doc
To_string ==
    /\ op = "new"
    /\ LET r == to_string(val)
       IN  /\ status' = IF r = Panic THEN "panic" ELSE "ok"
           /\ doc' = IF r = Panic THEN JNull ELSE JString(r.x)
    /\ old' = val
    /\ op' = "to_string"
    /\ UNCHANGED <<val, key, arg, ret>>

\* the forms a scalar is written in without a tag
Form_display == <<"d", "i", "s", "p", "l", "a", "y">>
Form_serde == <<"s", "e", "r", "d", "e">>

PlainForms == {Form_display, Form_serde}

\* a scalar as an untagged JSON string: its to_string, or the string its
\* Serialize writes (the "value" of its tagged JSON)
plain(self, form) ==
    IF form = Form_display THEN JString(to_string(self).x)
    ELSE Lookup(serialize(self).x.o, Key_value)

\* SolidityType::guess_json_value(&plain(val, form))
GuessPlain(form) ==
    /\ op = "new"
    /\ val.t \in {"Address", "Uint", "ByteArray", "String"}
    /\ LET r == guess_json_value(plain(val, form))
       IN  /\ status' = IF r = Panic THEN "panic" ELSE "ok"
           /\ ret' = IF r = Panic THEN Null ELSE r
    /\ doc' = plain(val, form)
    /\ key' = form
    /\ old' = val
    /\ op' = "guess_plain"
    /\ UNCHANGED <<val, arg>>

\* val + rhs
Add(rhs) ==
    /\ op = "new"
    /\ Returns("add", add(val, rhs))
    /\ arg' = rhs
    /\ UNCHANGED <<doc, key>>

\* val == rhs
Eq(rhs) ==
    /\ op = "new"
    /\ Returns("eq", eq(val, rhs))
    /\ arg' = rhs
    /\ UNCHANGED <<doc, key>>

\* val != rhs
Ne(rhs) ==
    /\ op = "new"
    /\ Returns("ne", ne(val, rhs))
    /\ arg' = rhs
    /\ UNCHANGED <<doc, key>>

\* val.partial_cmp(&rhs), which <, <=, > and >= go through
PartialCmp(rhs) ==
    /\ op = "new"
    /\ Returns("partial_cmp", partial_cmp(val, rhs))
    /\ arg' = rhs
    /\ UNCHANGED <<doc, key>>

\* val - rhs
Sub(rhs) ==
    /\ op = "new"
    /\ Returns("sub", sub(val, rhs))
    /\ arg' = rhs
    /\ UNCHANGED <<doc, key>>

\* val * rhs
Mul(rhs) ==
    /\ op = "new"
    /\ Returns("mul", mul(val, rhs))
    /\ arg' = rhs
    /\ UNCHANGED <<doc, key>>

\* val / rhs
Div(rhs) ==
    /\ op = "new"
    /\ Returns("div", div(val, rhs))
    /\ arg' = rhs
    /\ UNCHANGED <<doc, key>>

\* address(val), string(val), uint(val) or bytes(val)
Cast(name) ==
    /\ op = "new"
    /\ Returns(name, cast(name, val))
    /\ UNCHANGED <<doc, key, arg>>

NextOps ==
    \/ \E f \in Callbacks : Map(f)
    \/ \E f \in Callbacks : Filter(f)
    \/ ToMaybeValue
    \/ To_string
    \/ \E rhs \in RightOperands : Add(rhs)
    \/ \E rhs \in RightOperands : Sub(rhs)
    \/ \E rhs \in RightOperands : Mul(rhs)
    \/ \E rhs \in RightOperands : Div(rhs)
    \/ \E name \in Casts : Cast(name)
    \/ \E rhs \in RightOperands : Eq(rhs)
    \/ \E rhs \in RightOperands : Ne(rhs)
    \/ \E rhs \in RightOperands : PartialCmp(rhs)
    \/ \E form \in PlainForms : GuessPlain(form)

SpecOps == InitOps /\ [][NextOps]_vars

----------------------------------------------------------------------------
(* Documents of the store: From<Value>, From<Struct>, From<Operation> and *)
(* From<DeltaProto<Struct>>                                               *)

\* <SolidityType as From<Value>>::from: serde_json::from_value(value).unwrap()
from_value(value) ==
    LET r == deserialize(value) IN IF r.ok THEN r.x ELSE Panic

\* <SolidityType as From<Struct>>::from: the document as a serde_json::Value,
\* decoded when it decodes, else guessed
from_struct(value) ==
    LET r == deserialize(value) IN IF r.ok THEN r.x ELSE guess_json_value(value)

\* the names of store_delta::Operation
Unset == <<"U", "n", "s", "e", "t">>
Create == <<"C", "r", "e", "a", "t", "e">>
Update == <<"U", "p", "d", "a", "t", "e">>
Delete == <<"D", "e", "l", "e", "t", "e">>

Operations == {Unset, Create, Update, Delete}

\* <SolidityType as From<Operation>>::from
from_operation(operation) ==
    CASE operation = Unset -> String(Unset)
      [] operation = Create -> String(Create)
      [] operation = Update -> String(Update)
      [] operation = Delete -> String(Update)

\* a DeltaProto<Struct>
Delta(operation, k, old_value, new_value) ==
    [j |-> "delta", operation |-> operation, dkey |-> k, old_value |-> old_value, new_value |-> new_value]

Key_operation == <<"o", "p", "e", "r", "a", "t", "i", "o", "n">>
Key_key == <<"k", "e", "y">>
Key_old_value == <<"o", "l", "d", "_", "v", "a", "l", "u", "e">>
Key_new_value == <<"n", "e", "w", "_", "v", "a", "l", "u", "e">>

\* map_insert!(key, val, map), r being serde_json::to_value(val): the entry is
\* inserted unless val cannot be written, or is written as null, as an empty
\* array or as an empty object
map_insert(o, k, r) ==
    IF ~r.ok THEN o
    ELSE IF r.x.j = "null" THEN o
    ELSE IF r.x.j = "arr" /\ Len(r.x.a) = 0 THEN o
    ELSE IF r.x.j = "obj" /\ Len(r.x.o) = 0 THEN o
    ELSE MapInsert(o, k, r.x)

\* <SolidityType as From<DeltaProto<Struct>>>::from: the value of its
\* map_literal!, a map of the four fields of the delta, or Panic
from_delta(delta) ==
    LET old_value == from_struct(delta.old_value)
        new_value == from_struct(delta.new_value)
    IN  IF old_value = Panic \/ new_value = Panic THEN Panic
        ELSE JObject(map_insert(map_insert(map_insert(map_insert(<<>>,
                 Key_operation, serialize(from_operation(delta.operation))),
                 Key_key, serialize(String(delta.dkey))),
                 Key_old_value, serialize(old_value)),
                 Key_new_value, serialize(new_value)))

\* the values whose tagged JSON is among the documents
DocValues ==
    {Boolean(1), Uint(NatToNibbles(5)), Address(TestAddress), String(S_ab), Tuple(<<>>),
     List(<<Uint(NatToNibbles(5)), String(S_ab)>>),
     Struct([k \in {S_a} |-> Uint(NatToNibbles(5))]),
     Struct([k \in {Key_type, Key_value} |-> String(S_ab)])}

\* documents with a "type" that names no variant
UnknownTagDocuments ==
    {Tagged(S_foo, JString(S_ab)), Tagged(S_foo, JArray(<<>>)), Tagged(S_foo, JNull),
     Tagged(<<"U", "i", "n", "t">>, JString(<<"0", "x", "5">>))}

\* documents with the "type" of a variant and a payload that is none of its payloads
IllFormedDocuments ==
    {Tagged(Tag_uint, JString(S_ab)), Tagged(Tag_address, JString(<<"0", "x", "5">>)),
     Tagged(Tag_list, JString(S_ab))}

\* documents without a "type"
UntaggedDocuments ==
    {JObject(<<>>),
     JObject(<<[k |-> S_a, v |-> JString(S_ab)]>>),
     JObject(<<[k |-> K_0, v |-> JString(<<"0", "x", "5">>)], [k |-> K_1, v |-> JBool(TRUE)]>>),
     JObject(<<[k |-> Key_value, v |-> JString(S_ab)]>>),
     JObject(<<[k |-> S_a, v |-> JNull]>>)}

Documents ==
    {serialize(v).x : v \in DocValues}
    \cup UnknownTagDocuments \cup IllFormedDocuments \cup UntaggedDocuments

\* the documents of the deltas
DeltaDocuments ==
    {serialize(Uint(NatToNibbles(5))).x, Tagged(S_foo, JString(S_ab)), JObject(<<[k |-> S_a, v |-> JNull]>>)}

Deltas ==
    {Delta(operation, S_ab, old_value, new_value) :
        operation \in Operations, old_value \in DeltaDocuments, new_value \in DeltaDocuments}

InitDoc ==
    /\ doc \in Documents \cup Deltas
    /\ val = Null
    /\ old = Null
    /\ key = <<>>
    /\ arg = Null
    /\ ret = Null
    /\ op = "new"
    /\ status = "ok"

\* the outcome r of the conversion named name of doc
Converts(name, r) ==
    /\ status' = IF r = Panic THEN "panic" ELSE "ok"
    /\ ret' = IF r = Panic THEN Null ELSE r
    /\ op' = name
    /\ UNCHANGED <<doc, val, old, key, arg>>

\* SolidityType::from(doc), doc a serde_json::Value
FromValue ==
    /\ op = "new"
    /\ doc.j = "obj"
    /\ Converts("from_value", from_value(doc))

\* SolidityType::from(doc), doc a prost_wkt_types::Struct
FromStruct ==
    /\ op = "new"
    /\ doc.j = "obj"
    /\ Converts("from_struct", from_struct(doc))

\* SolidityType::from(doc.operation), doc a DeltaProto<Struct>
FromOperation ==
    /\ op = "new"
    /\ doc.j = "delta"
    /\ Converts("from_operation", from_operation(doc.operation))

\* SolidityType::from(doc), doc a DeltaProto<Struct>
FromDelta ==
    /\ op = "new"
    /\ doc.j = "delta"
    /\ Converts("from_delta", from_delta(doc))

NextDoc ==
    \/ FromValue
    \/ FromStruct
    \/ FromOperation
    \/ FromDelta

SpecDoc == InitDoc /\ [][NextDoc]_vars

----------------------------------------------------------------------------
(* Blocks and their logs: the block is in val, the addresses of the filter in *)
(* arg, and the pairs or the documents returned in ret                        *)

MaxLogs == 2

OtherAddress == Repeat(1, 40)

\* what the event type makes of a log: no event, an event of one field, an event
\* with a field tx_meta, and an event whose fields are numbered
Decodings ==
    {Err,
     Ok(JObject(MapInsert(<<>>, S_foo, JString(S_ab)))),
     Ok(JObject(MapInsert(MapInsert(<<>>, S_foo, JString(S_ab)), Key_tx_meta, JString(S_ab)))),
     Ok(JObject(MapInsert(<<>>, S_0, JString(S_ab))))}

\* a log: the address that emitted it, the from and the to of its transaction, to
\* being empty for a transaction that creates a contract, and its decoding
Logs ==
    {[address |-> a, from |-> f, to |-> t, event |-> e] :
        a \in {TestAddress, OtherAddress}, f \in {TestAddress}, t \in {OtherAddress, ZeroAddress, <<>>},
        e \in Decodings}

Blocks == {[number |-> n, logs |-> l] : n \in {42069}, l \in SeqsUpTo(Logs, MaxLogs)}

AddressSets == SUBSET {TestAddress, OtherAddress}

InitBlock ==
    /\ val \in Blocks
    /\ doc = JNull
    /\ old = Null
    /\ key = <<>>
    /\ arg = {}
    /\ ret = <<>>
    /\ op = "new"
    /\ status = "ok"

\* the outcome r of an operation named name on the block val with the filter addresses
ReturnsLogs(name, addresses, r) ==
    /\ status' = IF r = Panic THEN "panic" ELSE "ok"
    /\ ret' = IF r = Panic THEN <<>> ELSE r.x
    /\ arg' = addresses
    /\ op' = name
    /\ UNCHANGED <<doc, val, old, key>>

\* val.alloy_logs(addresses)
AlloyLogs(addresses) ==
    /\ op = "new"
    /\ ReturnsLogs("alloy_logs", addresses, alloy_logs(val, addresses))

\* T::get_events(val, addresses)
GetEvents(addresses) ==
    /\ op = "new"
    /\ ReturnsLogs("get_events", addresses, get_events(val, addresses))

NextBlock ==
    \/ \E addresses \in AddressSets : AlloyLogs(addresses)
    \/ \E addresses \in AddressSets : GetEvents(addresses)

SpecBlock == InitBlock /\ [][NextBlock]_vars

----------------------------------------------------------------------------
(* The stores: generic_set and generic_delete_prefix of StoreSetProto and of *)
(* StoreSetIfNotExistsProto.  The store is in doc, a function from the keys  *)
(* it holds to their documents; val is the value, key the key or the prefix, *)
(* and arg names the kind of store                                           *)

MaxEntries == 2

StoreSet == "StoreSetProto"
StoreSetIfNotExists == "StoreSetIfNotExistsProto"

\* variant: every kind of store overwrites
generic_set_overwrite(kind, store, k, value) ==
    LET as_key == to_string(k)
        as_value == serialize(value)
    IN  IF as_key = Panic \/ ~as_value.ok THEN Panic
        ELSE Ok([x \in DOMAIN store \cup {as_key.x} |-> IF x = as_key.x THEN as_value.x ELSE store[x]])

\* GenericStore::generic_set: the store after self.set(0, &key, &as_value), or
\* after self.set_if_not_exists(0, &key, &as_value), which leaves a key that the
\* store holds as it is; Panic when key.to_string() or serde_json::to_string(value)
\* panics.  The document is the JSON text of the value read back as a ProtoStruct,
\* which holds the object that serde_json wrote
generic_set(kind, store, k, value) ==
    LET as_key == to_string(k)
        as_value == serialize(value)
    IN  IF as_key = Panic \/ ~as_value.ok THEN Panic
        ELSE IF kind = StoreSetIfNotExists /\ as_key.x \in DOMAIN store THEN Ok(store)
        ELSE Ok([x \in DOMAIN store \cup {as_key.x} |-> IF x = as_key.x THEN as_value.x ELSE store[x]])

\* GenericStore::generic_delete_prefix: the store after self.delete_prefix(0, &prefix),
\* without the keys that start with the text of prefix; Panic when prefix.to_string() panics
generic_delete_prefix(store, prefix) ==
    LET as_prefix == to_string(prefix)
    IN  IF as_prefix = Panic THEN Panic
        ELSE Ok([x \in {y \in DOMAIN store : ~(Len(y) >= Len(as_prefix.x)
                                               /\ SubSeq(y, 1, Len(as_prefix.x)) = as_prefix.x)}
                     |-> store[x]])

\* the keys and the values given to the stores
StoreKeys == {Null, Uint(NatToNibbles(5)), String(S_a), String(S_ab), Tuple(<<>>), List(<<Uint(NatToNibbles(5))>>),
              Struct(<<>>)}

StoreValues == {Null, Uint(NatToNibbles(7)), String(S_ab), Tuple(<<Boolean(1), Address(TestAddress)>>),
                List(<<Null>>), Struct([k \in {S_a} |-> Uint(NatToNibbles(5))])}

\* the stores of up to MaxEntries entries written with generic_set
Stores ==
    UNION {[keys -> {serialize(v).x : v \in {w \in StoreValues : serialize(w).ok}}] :
              keys \in {ks \in SUBSET {to_string(k).x : k \in {x \in StoreKeys : to_string(x) # Panic}} :
                           Cardinality(ks) <= MaxEntries}}

InitStore ==
    /\ doc \in Stores
    /\ val = Null
    /\ old = <<>>
    /\ key = Null
    /\ arg \in {StoreSet, StoreSetIfNotExists}
    /\ ret = Null
    /\ op = "new"
    /\ status = "ok"

\* store.generic_set(k, value)
GenericSet(k, value) ==
    /\ op = "new"
    /\ LET r == generic_set(arg, doc, k, value)
       IN  /\ status' = IF r = Panic THEN "panic" ELSE "ok"
           /\ doc' = IF r = Panic THEN doc ELSE r.x
    /\ old' = doc
    /\ key' = k
    /\ val' = value
    /\ op' = "generic_set"
    /\ UNCHANGED <<arg, ret>>

\* store.generic_delete_prefix(prefix)
GenericDeletePrefix(prefix) ==
    /\ op = "new"
    /\ LET r == generic_delete_prefix(doc, prefix)
       IN  /\ status' = IF r = Panic THEN "panic" ELSE "ok"
           /\ doc' = IF r = Panic THEN doc ELSE r.x
    /\ old' = doc
    /\ key' = prefix
    /\ op' = "generic_delete_prefix"
    /\ UNCHANGED <<val, arg, ret>>

NextStore ==
    \/ \E k \in StoreKeys, value \in StoreValues : GenericSet(k, value)
    \/ \E prefix \in StoreKeys : GenericDeletePrefix(prefix)

SpecStore == InitStore /\ [][NextStore]_vars

----------------------------------------------------------------------------
(* Claims about the type guesser, checked under SpecGuess *)

\* a key of the form "_<decimal-index>"
IsTupleKey(k) == Len(k) >= 2 /\ k[1] = "_" /\ \A i \in 2..Len(k) : IsDecDigit(k[i])

RECURSIVE DecimalValue(_)
DecimalValue(s) ==
    IF s = <<>> THEN 0
    ELSE 10 * DecimalValue(SubSeq(s, 1, Len(s) - 1)) + (CHOOSE n \in 0..9 : DecDigits[n + 1] = s[Len(s)])

\* the index a positional key names
KeyIndex(k) == DecimalValue(SubSeq(k, 2, Len(k)))

RECURSIVE HasNull(_)
HasNull(v) ==
    CASE v.j = "null" -> TRUE
      [] v.j = "arr" -> \E i \in 1..Len(v.a) : HasNull(v.a[i])
      [] v.j = "obj" -> \E i \in 1..Len(v.o) : HasNull(v.o[i].v)
      [] OTHER -> FALSE

Guessed == op = "guess"

\* C2: guessing an object whose keys are exactly "_0", "_1", "_2" yields the Tuple
\* of the guessed values of "_0", "_1", "_2" in that order, in whatever order the
\* fields were put into the object (and fails when one of the values cannot be guessed).
C2_TupleInKeyOrder ==
    (Guessed /\ doc.j = "obj" /\ Keys(doc.o) = {K_0, K_1, K_2}) =>
        LET A == guess_json_value(Lookup(doc.o, K_0))
            B == guess_json_value(Lookup(doc.o, K_1))
            C == guess_json_value(Lookup(doc.o, K_2))
        IN  IF A = Panic \/ B = Panic \/ C = Panic
            THEN status = "panic"
            ELSE status = "ok" /\ ret = Tuple(<<A, B, C>>)

\* _0 was the last of the three fields to be supplied, and the guess is a Tuple of distinct values
C2_Witness ==
    /\ Guessed /\ status = "ok" /\ doc.j = "obj"
    /\ Keys(doc.o) = {K_0, K_1, K_2}
    /\ key = K_0
    /\ ret.t = "Tuple" /\ Len(ret.items) = 3
    /\ ret.items[1] # ret.items[2] /\ ret.items[2] # ret.items[3]

\* C3: when every key of the object is "_<decimal-index>", the Tuple holds the
\* guessed values in the order of the numeric value of the key suffixes.
C3_TupleInNumericOrder ==
    (Guessed /\ status = "ok" /\ doc.j = "obj" /\ Len(doc.o) >= 2
        /\ \A k \in Keys(doc.o) : IsTupleKey(k)) =>
        /\ ret.t = "Tuple"
        /\ Len(ret.items) = Len(doc.o)
        /\ \A i \in 1..Len(doc.o) :
              LET rank == 1 + Cardinality({j \in 1..Len(doc.o) : KeyIndex(doc.o[j].k) < KeyIndex(doc.o[i].k)})
              IN  ret.items[rank] = guess_json_value(doc.o[i].v)

\* the variant the string rules name for a string
NamedVariant(s) ==
    IF ~starts_with_0x(s) THEN "String"
    ELSE IF Len(s) = 42 THEN "Address"
    ELSE IF Len(s) = 66 THEN "Uint"
    ELSE IF Len(s) > 66 THEN "ByteArray"
    ELSE "Uint"

\* C4 as stated: every string yields a value of the variant the rules name.
C4_EveryStringYields ==
    (Guessed /\ doc.j = "str") =>
        /\ status = "ok"
        /\ ret.t = NamedVariant(doc.s)
        /\ (ret.t = "String" => ret.s = doc.s)

\* C4 amended: a string that does not start with "0x" yields Text holding it; a
\* "0x" string whose other characters are all hexadecimal digits yields the
\* variant the rules name, holding those digits (ByteSequence only for an even
\* number of digits, else the guess is fatal); a "0x" string with a character
\* that is neither a hexadecimal digit nor '_' is fatal.
C4_StringRules ==
    (Guessed /\ doc.j = "str") =>
        LET s == doc.s
            body == SubSeq(s, 3, Len(s))
            hex == \A i \in 1..Len(body) : IsHexDigit(body[i])
            bad == \E i \in 1..Len(body) : ~IsHexDigit(body[i]) /\ body[i] # "_"
            nibbles == [i \in 1..Len(body) |-> HexVal(body[i])]
        IN  /\ ~starts_with_0x(s) => status = "ok" /\ ret = String(s)
            /\ (starts_with_0x(s) /\ bad) => status = "panic"
            /\ (starts_with_0x(s) /\ hex /\ Len(s) = 42) =>
                    status = "ok" /\ ret = Address(nibbles)
            /\ (starts_with_0x(s) /\ hex /\ Len(s) > 66) =>
                    IF Len(body) % 2 = 0 THEN status = "ok" /\ ret = ByteArray(nibbles)
                    ELSE status = "panic"
            /\ (starts_with_0x(s) /\ hex /\ Len(s) # 42 /\ Len(s) <= 66) =>
                    /\ status = "ok" /\ ret.t = "Uint"
                    /\ \E z \in 0..Len(body) :
                          /\ \A i \in 1..z : nibbles[i] = 0
                          /\ ret.h = SubSeq(nibbles, z + 1, Len(body))
                          /\ (ret.h # <<>> => ret.h[1] # 0)

\* a well-formed "0x" string of exactly 66 characters was guessed as an integer
C4_Witness ==
    /\ Guessed /\ status = "ok" /\ doc.j = "str"
    /\ starts_with_0x(doc.s) /\ Len(doc.s) = 66
    /\ ret.t = "Uint" /\ Len(ret.h) = 64

\* C5: guessing a document that is or contains null ends in a failure returned
\* to the caller, not in a panic.
C5_NullIsRecoverable ==
    (Guessed /\ HasNull(doc)) => status # "panic"

\* C6: an object with exactly one key, of the form "_<decimal-index>", yields
\* the guessed value of its field, not a Tuple around it.
C6_SingleFieldUnwrapped ==
    (Guessed /\ doc.j = "obj" /\ Len(doc.o) = 1 /\ IsTupleKey(doc.o[1].k)) =>
        LET g == guess_json_value(doc.o[1].v)
        IN  IF g = Panic THEN status = "panic" ELSE status = "ok" /\ ret = g

C6_Witness ==
    /\ Guessed /\ status = "ok" /\ doc.j = "obj"
    /\ Len(doc.o) = 1 /\ doc.o[1].k = K_10
    /\ ret = String(S_ab)

\* C7: an object with a key that is not of the form "_<decimal-index>" yields a
\* Struct whose field names are exactly the keys, each field holding the
\* guessed value of the key's value (and fails when one of them cannot be guessed).
C7_StructOfKeys ==
    (Guessed /\ doc.j = "obj" /\ \E k \in Keys(doc.o) : ~IsTupleKey(k)) =>
        IF \E k \in Keys(doc.o) : guess_json_value(Lookup(doc.o, k)) = Panic
        THEN status = "panic"
        ELSE /\ status = "ok"
             /\ ret.t = "Struct"
             /\ DOMAIN ret.fields = Keys(doc.o)
             /\ \A k \in Keys(doc.o) : ret.fields[k] = guess_json_value(Lookup(doc.o, k))

\* a positional key next to keys that only contain or start with one
C7_Witness ==
    /\ Guessed /\ status = "ok" /\ doc.j = "obj"
    /\ Keys(doc.o) = {K_0, K_a_1, K_1x}
    /\ ret.t = "Struct" /\ DOMAIN ret.fields = {K_0, K_a_1, K_1x}

----------------------------------------------------------------------------
(* Claims about the representation and the structural operations, checked under Spec *)

RECURSIVE HasNullValue(_)
HasNullValue(v) ==
    CASE v.t = "Null" -> TRUE
      [] v.t \in {"Tuple", "List"} -> \E i \in 1..Len(v.items) : HasNullValue(v.items[i])
      [] v.t = "Struct" -> \E k \in DOMAIN v.fields : HasNullValue(v.fields[k])
      [] OTHER -> FALSE

\* a key that parses as an index
IsIndexKey(k) == k # <<>> /\ \A i \in 1..Len(k) : IsDecDigit(k[i])

\* C1: a value without a Null descendant can be written as tagged JSON, and
\* reading that JSON back yields a value equal to it: the same variant, payload,
\* element order and fields.
C1_RoundTrip ==
    /\ (op = "serialize" /\ ~HasNullValue(val)) => status = "ok"
    /\ (op = "deserialize" /\ ~HasNullValue(val)) => (status = "ok" /\ ret = val)

\* a Tuple holding a List and a Struct has made the round trip
C1_Witness ==
    /\ op = "deserialize" /\ status = "ok"
    /\ val.t = "Tuple" /\ Len(val.items) = 2
    /\ val.items[1].t = "List" /\ val.items[2].t = "Struct"
    /\ ret = val

C9_InsertOverwritesOrAppends ==
    op = "insert" =>
        /\ (IsSeq(old) /\ IsIndexKey(key) /\ DecimalValue(key) < Len(old.items)) =>
              /\ status = "ok"
              /\ val = [old EXCEPT !.items[DecimalValue(key) + 1] = arg]
              /\ get(val, key) = arg
        /\ (IsSeq(old) /\ IsIndexKey(key) /\ DecimalValue(key) = Len(old.items)) =>
              /\ status = "ok"
              /\ val = [old EXCEPT !.items = Append(old.items, arg)]
              /\ get(val, key) = arg
        /\ old.t = "Struct" =>
              /\ status = "ok"
              /\ val.t = "Struct"
              /\ DOMAIN val.fields = DOMAIN old.fields \cup {key}
              /\ val.fields[key] = arg
              /\ \A f \in DOMAIN old.fields \ {key} : val.fields[f] = old.fields[f]

\* C10 as stated: on every Tuple and List a key that is no index is fatal for
\* get and for insert.
C10_NonIndexKeyAlwaysFatal ==
    (op \in {"get", "insert"} /\ IsSeq(old) /\ ~IsIndexKey(key)) =>
        (status = "panic" /\ val = old)

\* C10 amended: on a Tuple or List a key that is no index is fatal for insert,
\* and for get when the sequence is not empty; get on an empty Tuple or List
\* returns Null for such a key; the sequence is not modified.
C10_NonIndexKey ==
    (op \in {"get", "insert"} /\ IsSeq(old) /\ ~IsIndexKey(key)) =>
        /\ val = old
        /\ IF op = "get" /\ Len(old.items) = 0
           THEN status = "ok" /\ ret = Null
           ELSE status = "panic"

\* "foo" was given to insert on an empty List
C10_Witness ==
    /\ op = "insert" /\ status = "panic"
    /\ old = List(<<>>) /\ val = old
    /\ key = S_foo

\* C11: insert on a scalar of any variant, or on Null, changes nothing and does
\* not fail, whatever the key and the value.
C11_InsertIntoScalarIsNoOp ==
    (op = "insert" /\ (IsScalar(old) \/ old = Null)) => (status = "ok" /\ val = old)

\* a List was inserted under the key "foo" into an Address, which stayed as it was
C11_Witness ==
    /\ op = "insert" /\ status = "ok"
    /\ old = Address(TestAddress) /\ val = old
    /\ key = S_foo /\ arg.t = "List"

----------------------------------------------------------------------------
(* Claims about map, filter, to_maybe_value, to_string, addition and the *)
(* comparisons, checked under SpecOps                                     *)

\* the place in the result of the element at index i, when the elements at the
\* indexes of kept are retained in their order
Place(kept, i) == Cardinality({j \in kept : j <= i})

\* C12: map(f) on a Tuple or List returns the List of the f(e) that are not Null,
\* in the order of the elements e, and Null when none is retained; the value
\* mapped over is unchanged; map on a Struct or on a scalar is fatal.
C12_MapKeepsNonNull ==
    op = "map" =>
        /\ val = old
        /\ IsSeq(val) =>
              LET kept == {i \in 1..Len(val.items) : callback(key, val.items[i]) # Null}
              IN  /\ status = "ok"
                  /\ IF kept = {} THEN ret = Null
                     ELSE /\ ret.t = "List"
                          /\ Len(ret.items) = Cardinality(kept)
                          /\ \A i \in kept : ret.items[Place(kept, i)] = callback(key, val.items[i])
        /\ (val.t = "Struct" \/ IsScalar(val)) => status = "panic"

\* the identity mapped over the Tuple (Null, "ab") gave the List ("ab")
C12_Witness ==
    /\ op = "map" /\ status = "ok" /\ key = F_id
    /\ val = Tuple(<<Null, String(S_ab)>>)
    /\ ret = List(<<String(S_ab)>>)

\* C13: filter(f) on a Tuple or List returns the List of the elements e, in
\* their order, for which f(e) is a Boolean that is not 0; an element with f(e)
\* Boolean 0 or Null is dropped; Null is returned when nothing is kept; f(e) of
\* any other variant, for some element, is fatal.
C13_FilterKeepsTrue ==
    (op = "filter" /\ IsSeq(val)) =>
        LET answer(i) == callback(key, val.items[i])
            kept == {i \in 1..Len(val.items) : answer(i).t = "Boolean" /\ answer(i).n # 0}
        IN  IF \E i \in 1..Len(val.items) : answer(i).t \notin {"Boolean", "Null"}
            THEN status = "panic"
            ELSE /\ status = "ok"
                 /\ IF kept = {} THEN ret = Null
                    ELSE /\ ret.t = "List"
                         /\ Len(ret.items) = Cardinality(kept)
                         /\ \A i \in kept : ret.items[Place(kept, i)] = val.items[i]

\* of a List of a String and an integer, the filter for integers kept the integer
C13_Witness ==
    /\ op = "filter" /\ status = "ok" /\ key = F_is_uint
    /\ val = List(<<String(S_ab), Uint(NatToNibbles(5))>>)
    /\ ret = List(<<Uint(NatToNibbles(5))>>)

\* a value of which nothing is left once the Nulls are stripped: Null, or a
\* Tuple, List or Struct all of whose children are such values
RECURSIVE Hollow(_)
Hollow(v) ==
    CASE v.t = "Null" -> TRUE
      [] v.t \in {"Tuple", "List"} -> \A i \in 1..Len(v.items) : Hollow(v.items[i])
      [] v.t = "Struct" -> \A k \in DOMAIN v.fields : Hollow(v.fields[k])
      [] OTHER -> FALSE

\* an empty Tuple, List or Struct, at any depth
RECURSIVE HasEmptyComposite(_)
HasEmptyComposite(v) ==
    CASE v.t \in {"Tuple", "List"} ->
            Len(v.items) = 0 \/ \E i \in 1..Len(v.items) : HasEmptyComposite(v.items[i])
      [] v.t = "Struct" ->
            DOMAIN v.fields = {} \/ \E k \in DOMAIN v.fields : HasEmptyComposite(v.fields[k])
      [] OTHER -> FALSE

\* C14: to_maybe_value returns None for every Tuple, List or Struct of which
\* nothing is left once its Null and absent descendants are stripped, and a
\* result that is present holds no empty Tuple, List or Struct at any depth.
C14_PruneCollapsesEmpty ==
    op = "to_maybe_value" =>
        /\ (val.t \in {"Tuple", "List", "Struct"} /\ Hollow(val)) => ret = None
        /\ ret # None => ~HasEmptyComposite(ret)

\* C15: to_maybe_value applied to its own result, when present, returns that
\* result again; and it returns None for a Struct all of whose fields are Null.
C15_PruneIdempotent ==
    op = "to_maybe_value" =>
        /\ ret # None => to_maybe_value(ret) = ret
        /\ (val.t = "Struct" /\ \A k \in DOMAIN val.fields : val.fields[k] = Null) => ret = None

\* C16: a result of to_maybe_value that is present holds no Null at any depth,
\* so it can be written as tagged JSON.
C16_PrunedHasNoNull ==
    (op = "to_maybe_value" /\ ret # None) =>
        /\ status = "ok"
        /\ ~HasNullValue(ret)
        /\ serialize(ret).ok

\* a Null two levels down, inside a Struct inside a List, and a Null element
\* were both stripped
C16_Witness ==
    /\ op = "to_maybe_value" /\ status = "ok"
    /\ val = List(<<Struct([k \in {S_a} |-> List(<<Null, Uint(NatToNibbles(7))>>)]), Null>>)
    /\ ret = List(<<Struct([k \in {S_a} |-> List(<<Uint(NatToNibbles(7))>>)])>>)

\* C17: Null is an identity of + on both sides: Null + X is X and X + Null is X
\* for X of every variant, and neither fails.
C17_NullIsIdentityOfAdd ==
    (op = "add" /\ (val = Null \/ arg = Null)) =>
        /\ status = "ok"
        /\ ret = IF val = Null THEN arg ELSE val

\* Null was added to the String "ab", which came back as it was
C17_Witness ==
    /\ op = "add" /\ status = "ok"
    /\ val = String(S_ab) /\ arg = Null
    /\ ret = String(S_ab)

\* the digits of a + b, as many as the sum needs
ExactSum(a, b) == StripZeros(AddDigits(a, b, 65))

\* C18 as stated: of two operands that are not Null, a String plus a scalar X is
\* the String followed by the canonical string of X; an integer a plus an
\* integer b is the integer a + b; every other pair is fatal.
C18_AddAsStated ==
    (op = "add" /\ val # Null /\ arg # Null) =>
        IF val.t = "String" /\ IsScalar(arg)
        THEN status = "ok" /\ ret = String(val.s \o to_string(arg).x)
        ELSE IF val.t = "Uint" /\ arg.t = "Uint"
        THEN status = "ok" /\ ret = Uint(ExactSum(val.h, arg.h))
        ELSE status = "panic"

\* C18 amended: as C18, with the sum of two integers taken modulo 2^256.
C18_AddWraps ==
    (op = "add" /\ val # Null /\ arg # Null) =>
        IF val.t = "String" /\ IsScalar(arg)
        THEN status = "ok" /\ ret = String(val.s \o to_string(arg).x)
        ELSE IF val.t = "Uint" /\ arg.t = "Uint"
        THEN /\ status = "ok"
             /\ ret.t = "Uint"
             /\ LET sum == ExactSum(val.h, arg.h)
                IN  ret.h = IF Len(sum) > 64 THEN StripZeros(Tail(sum)) ELSE sum
             /\ (Len(val.h) < 7 /\ Len(arg.h) < 7) =>
                    NibblesToNat(ret.h) = NibblesToNat(val.h) + NibblesToNat(arg.h)
        ELSE status = "panic"

\* 2^256 - 1 plus 5 gave 4
C18_Witness ==
    /\ op = "add" /\ status = "ok"
    /\ val = Uint([i \in 1..64 |-> 15]) /\ arg = Uint(NatToNibbles(5))
    /\ ret = Uint(NatToNibbles(4))

\* C19 as stated: == and != are defined for two integers and for two addresses,
\* the ordering for two integers and for two Strings; every other comparison,
\* the ordering of two addresses among them, is fatal.
C19_ComparisonsAsStated ==
    op \in {"eq", "ne", "partial_cmp"} =>
        LET defined == \/ val.t = "Uint" /\ arg.t = "Uint"
                       \/ val.t = "Address" /\ arg.t = "Address" /\ op \in {"eq", "ne"}
                       \/ val.t = "String" /\ arg.t = "String" /\ op = "partial_cmp"
        IN  status = IF defined THEN "ok" ELSE "panic"

\* C19 amended: == and != are defined for two integers and for two addresses,
\* the ordering for two integers, for two addresses and for two Strings; every
\* other comparison is fatal.
C19_Comparisons ==
    op \in {"eq", "ne", "partial_cmp"} =>
        LET defined == \/ val.t = "Uint" /\ arg.t = "Uint"
                       \/ val.t = "Address" /\ arg.t = "Address"
                       \/ val.t = "String" /\ arg.t = "String" /\ op = "partial_cmp"
        IN  /\ status = IF defined THEN "ok" ELSE "panic"
            /\ (defined /\ op = "eq") => ret = Bool(val = arg)
            /\ (defined /\ op = "ne") => ret = Bool(val # arg)
            /\ (defined /\ op = "partial_cmp") => (ret = Ordering("Equal") <=> val = arg)

\* the zero address was ordered before the address of the tests
C19_Witness ==
    /\ op = "partial_cmp" /\ status = "ok"
    /\ val = Address(ZeroAddress) /\ arg = Address(TestAddress)
    /\ ret = Ordering("Less")

\* 2^256 - 1 in decimal
U256MaxText ==
    <<"1", "1", "5", "7", "9", "2", "0", "8", "9", "2", "3", "7", "3", "1", "6", "1", "9", "5", "4", "2",
      "3", "5", "7", "0", "9", "8", "5", "0", "0", "8", "6", "8", "7", "9", "0", "7", "8", "5", "3", "2",
      "6", "9", "9", "8", "4", "6", "6", "5", "6", "4", "0", "5", "6", "4", "0", "3", "9", "4", "5", "7",
      "5", "8", "4", "0", "0", "7", "9", "1", "3", "1", "2", "9", "6", "3", "9", "9", "3", "5">>

\* a text of decimal digits, without a leading zero unless it is "0", that spells n
IsDecimalOf(s, n) ==
    /\ s # <<>>
    /\ \A i \in 1..Len(s) : IsDecDigit(s[i])
    /\ (Len(s) > 1 => s[1] # "0")
    /\ DigitsValue(s) = n

\* "0x" followed by the hexadecimal digits h, two a byte
IsHexOf(s, h) ==
    /\ Len(s) = 2 + Len(h)
    /\ starts_with_0x(s)
    /\ \A i \in 1..Len(h) : IsHexDigit(s[2 + i]) /\ HexVal(s[2 + i]) = h[i]

\* C20: to_string gives "true" for a Boolean that is not 0 and "false" for 0,
\* the decimal digits of an Enum and of an integer, "0x" and the hexadecimal
\* digits of an Address, a ByteArray and a FixedArray, a String itself and
\* "null" for Null; it is fatal for a Tuple, a List and a Struct.
C20_CanonicalString ==
    op = "to_string" =>
        CASE val.t = "Boolean" ->
                status = "ok" /\ doc = JString(IF val.n # 0 THEN S_true ELSE S_false)
          [] val.t = "Enum" -> status = "ok" /\ doc.j = "str" /\ IsDecimalOf(doc.s, val.n)
          [] val.t = "Uint" ->
                /\ status = "ok" /\ doc.j = "str"
                /\ IF Len(val.h) < 7 THEN IsDecimalOf(doc.s, NibblesToNat(val.h))
                   ELSE val.h = [i \in 1..64 |-> 15] => doc.s = U256MaxText
          [] val.t \in {"Address", "ByteArray", "FixedArray"} ->
                status = "ok" /\ doc.j = "str" /\ IsHexOf(doc.s, val.h)
          [] val.t = "String" -> status = "ok" /\ doc = JString(val.s)
          [] val.t = "Null" -> status = "ok" /\ doc = JString(S_null)
          [] OTHER -> status = "panic"

\* the integer 42069 was written as "42069"
C20_Witness ==
    /\ op = "to_string" /\ status = "ok"
    /\ val = Uint(NatToNibbles(42069))
    /\ doc = JString(<<"4", "2", "0", "6", "9">>)

----------------------------------------------------------------------------
(* Further claims about the type guesser, checked under SpecGuess *)

\* a Tuple without elements, at any depth
RECURSIVE HasEmptyTuple(_)
HasEmptyTuple(v) ==
    CASE v.t = "Tuple" -> Len(v.items) = 0 \/ \E i \in 1..Len(v.items) : HasEmptyTuple(v.items[i])
      [] v.t = "List" -> \E i \in 1..Len(v.items) : HasEmptyTuple(v.items[i])
      [] v.t = "Struct" -> \E k \in DOMAIN v.fields : HasEmptyTuple(v.fields[k])
      [] OTHER -> FALSE

\* C29: guessing an object without keys yields the empty Struct, and no guess
\* yields a Tuple without elements.
C29_EmptyObjectIsStruct ==
    (op = "guess" /\ status = "ok") =>
        /\ doc = JObject(<<>>) => ret = Struct(<<>>)
        /\ ~HasEmptyTuple(ret)

----------------------------------------------------------------------------
(* Claims about the documents of the store, checked under SpecDoc *)

KnownTags ==
    {Tag_boolean, Tag_enum, Tag_uint, Tag_address, Tag_byteArray, Tag_fixedArray,
     Tag_string, Tag_tuple, Tag_list, Tag_struct}

\* a document with a "type" entry
HasTypeTag(d) == d.j = "obj" /\ Key_type \in Keys(d.o)

\* a document whose "type" names no variant
HasUnknownTag(d) ==
    /\ HasTypeTag(d)
    /\ Lookup(d.o, Key_type).j = "str"
    /\ Lookup(d.o, Key_type).s \notin KnownTags

\* C21: decoding a document whose "type" names no variant is fatal, from a
\* serde_json::Value and from a document of the store alike: no value is made of it.
C21_UnknownTagIsFatal ==
    (op \in {"from_value", "from_struct"} /\ HasUnknownTag(doc)) => status = "panic"

\* C25: the conversion of a document of the store decodes a well-formed tagged
\* document, and guesses only a document without a "type"; the tagged JSON of a
\* value converts to that value.
C25_TaggedBeforeGuess ==
    op = "from_struct" =>
        /\ deserialize(doc).ok => (status = "ok" /\ ret = deserialize(doc).x)
        /\ (HasTypeTag(doc) /\ status = "ok") => (deserialize(doc).ok /\ ret = deserialize(doc).x)
        /\ \A v \in DocValues : doc = serialize(v).x => (status = "ok" /\ ret = v)

\* C28: each of Unset, Create, Update and Delete converts to the String of its
\* own name, and the "operation" entry of a converted delta is the tagged JSON
\* of the name of the delta's operation.
C28_OperationKeepsName ==
    /\ op = "from_operation" => ret = String(doc.operation)
    /\ (op = "from_delta" /\ status = "ok") =>
          Lookup(ret.o, Key_operation) = Tagged(Tag_string, JString(doc.operation))

----------------------------------------------------------------------------
(* Further claims about the operations that read a value, checked under SpecOps *)

\* the text s of a value of variant t falls where the guesser looks for that
\* variant: 42 characters for an Address; for an integer not 42 characters, and
\* decimal or "0x" and hexadecimal; more than 66 for bytes; no "0x" in front of a String
RespectsHeuristics(t, s) ==
    CASE t = "Address" -> starts_with_0x(s) /\ Len(s) = 42
      [] t = "Uint" -> Len(s) # 42 /\ Len(s) <= 66
      [] t = "ByteArray" -> starts_with_0x(s) /\ Len(s) > 66
      [] t = "String" -> ~starts_with_0x(s)

\* C23: for an Address, an integer, a ByteArray or a String whose untagged text
\* respects the lengths the guesser goes by, guessing that text yields a value
\* with the to_string of the value written.
C23_GuessStability ==
    (op = "guess_plain" /\ RespectsHeuristics(val.t, doc.s)) =>
        /\ status = "ok"
        /\ to_string(ret) = to_string(val)

\* 33 bytes were written as "0x" and 66 digits, and guessed as those bytes
C23_Witness ==
    /\ op = "guess_plain" /\ status = "ok" /\ key = Form_serde
    /\ val = ByteArray(Repeat(10, 66))
    /\ Len(doc.s) = 68
    /\ ret = val

\* the operation was -, * or /
IsArithmetic == op \in {"sub", "mul", "div"}

\* both operands of the operation are unsigned integers
BothUint == old.t = "Uint" /\ arg.t = "Uint"

\* C26 as stated: -, * and / are fatal for every operand pair that is not two
\* unsigned integers, the pairs with a Null operand included, and return a value
\* for two unsigned integers.
C26_NullOnlyForAddAsStated ==
    IsArithmetic =>
        /\ ~BothUint => status = "panic"
        /\ BothUint => status = "ok" /\ ret.t = "Uint"

\* C26: Null - X and X - Null return X; * and / return Null when either operand
\* is Null; two unsigned integers give the difference and the product modulo
\* 2^256 and the quotient rounded down, the division by zero being fatal; every
\* other operand pair is fatal.
C26_NullPolicy ==
    IsArithmetic =>
        IF old = Null \/ arg = Null
        THEN /\ status = "ok"
             /\ op = "sub" => ret = (IF old = Null THEN arg ELSE old)
             /\ op \in {"mul", "div"} => ret = Null
        ELSE IF BothUint
        THEN CASE op = "sub" ->
                    /\ status = "ok" /\ ret.t = "Uint"
                    /\ wrapping_add(ret.h, arg.h) = old.h
               [] op = "mul" ->
                    /\ status = "ok" /\ ret.t = "Uint"
                    /\ IF arg.h = <<>> THEN ret.h = <<>>
                       ELSE ret.h = wrapping_add(wrapping_mul(old.h, wrapping_sub(arg.h, <<1>>)), old.h)
               [] op = "div" ->
                    IF arg.h = <<>> THEN status = "panic"
                    ELSE /\ status = "ok" /\ ret.t = "Uint"
                         /\ ~UintLess(old.h, wrapping_mul(ret.h, arg.h))
                         /\ UintLess(wrapping_sub(old.h, wrapping_mul(ret.h, arg.h)), arg.h)
        ELSE status = "panic"

\* Null - 7 has returned 7
C26_Witness == op = "sub" /\ old = Null /\ arg = Uint(NatToNibbles(7)) /\ ret = arg /\ status = "ok"

\* the variant a cast is to return
TargetOf(name) ==
    CASE name = "address" -> "Address" [] name = "string" -> "String"
      [] name = "uint" -> "Uint" [] name = "bytes" -> "ByteArray"

\* C27: the casts address, string, uint and bytes never fail: they return a
\* value of the target variant or Null, and Null for a Tuple, a List, a Struct
\* and Null.
C27_CastsAreTotal ==
    op \in Casts =>
        /\ status = "ok"
        /\ ret = Null \/ ret.t = TargetOf(op)
        /\ old.t \in {"Tuple", "List", "Struct", "Null"} => ret = Null

----------------------------------------------------------------------------
(* Claims about the logs of a block, checked under SpecBlock *)

\* the positions of the logs of the block that the filter lets through
Selected == {i \in 1..Len(val.logs) : arg = {} \/ val.logs[i].address \in arg}

\* the j-th position, in the order of the block, of a set of positions
Nth(positions, j) == CHOOSE i \in positions : Cardinality({k \in positions : k <= i}) = j

\* C22: get_events fails when a decoded event that it merges the provenance into
\* already has a field named tx_meta; such a field is never overwritten.
C22_CollisionIsFatal ==
    op = "get_events" =>
        ((\E i \in Selected : val.logs[i].event.ok /\ Key_tx_meta \in Keys(val.logs[i].event.x.o))
            => status = "panic")

\* C30: alloy_logs returns, in the order of the block, one pair for each log that
\* the filter lets through, every log for an empty filter, with the from and
\* the to of the transaction of the log and the number of the block; get_events
\* returns at most one document for each such log that decodes.
C30_LogsAndProvenance ==
    /\ op = "alloy_logs" =>
          /\ status = "ok"
          /\ Len(ret) = Cardinality(Selected)
          /\ \A j \in 1..Len(ret) :
                LET log == val.logs[Nth(Selected, j)]
                IN  /\ ret[j].log = log
                    /\ ret[j].meta.from = Address(log.from)
                    /\ ret[j].meta.to = Address(log.to)
                    /\ ret[j].meta.block_number = Uint(NatToNibbles(val.number))
    /\ op = "get_events" /\ status = "ok" =>
          Len(ret) <= Cardinality({i \in Selected : val.logs[i].event.ok})

----------------------------------------------------------------------------
(* Claims about the stores, checked under SpecStore *)

IsComposite(v) == v.t \in {"Tuple", "List", "Struct"}

\* the store is the store before with one entry written: the document of val
\* under the text of key, which reads back as val
OneEntryWritten ==
    LET as_key == to_string(key).x
    IN  /\ DOMAIN doc = DOMAIN old \cup {as_key}
        /\ \A x \in DOMAIN old \ {as_key} : doc[x] = old[x]
        /\ doc[as_key] = serialize(val).x
        /\ from_struct(doc[as_key]) = val

\* the store is the store before without the keys that start with the text of key
PrefixDeleted ==
    LET as_prefix == to_string(key).x
        left == {x \in DOMAIN old : \E n \in 0..Len(x) : n < Len(as_prefix) /\ (n = Len(x) \/ x[n + 1] # as_prefix[n + 1])
                                                          /\ \A i \in 1..n : x[i] = as_prefix[i]}
    IN  DOMAIN doc = left /\ \A x \in left : doc[x] = old[x]

\* C24 as stated: generic_set writes one entry, the document of the value under
\* the text of the key, in either kind of store.
C24_SetWritesOneEntryAsStated ==
    /\ op = "generic_set" =>
          IF IsComposite(key) \/ HasNullValue(val) THEN status = "panic"
          ELSE status = "ok" /\ OneEntryWritten
    /\ op = "generic_delete_prefix" =>
          IF IsComposite(key) THEN status = "panic" ELSE status = "ok" /\ PrefixDeleted

\* C24: generic_set of a StoreSetProto writes one entry, the document of the
\* value under the text of the key, which reads back as the value; generic_set
\* of a StoreSetIfNotExistsProto does so when the store does not hold the key
\* and leaves the store as it is when it does; generic_delete_prefix deletes the
\* keys that start with the text of the prefix; both are fatal for a key that
\* is a Tuple, a List or a Struct, and generic_set for a value with a Null in it.
C24_SetWritesUnlessKept ==
    /\ op = "generic_set" =>
          IF IsComposite(key) \/ HasNullValue(val) THEN status = "panic" /\ doc = old
          ELSE /\ status = "ok"
               /\ IF arg = StoreSetIfNotExists /\ to_string(key).x \in DOMAIN old
                  THEN doc = old
                  ELSE OneEntryWritten
    /\ op = "generic_delete_prefix" =>
          IF IsComposite(key) THEN status = "panic" /\ doc = old ELSE status = "ok" /\ PrefixDeleted

\* a StoreSetIfNotExistsProto that holds "ab" has been given another value for
\* the key "ab", and has kept the document it held
C24_Witness ==
    /\ op = "generic_set" /\ arg = StoreSetIfNotExists /\ status = "ok"
    /\ key = String(S_ab) /\ S_ab \in DOMAIN old
    /\ old[S_ab] # serialize(val).x /\ doc = old
====
